---- MODULE Spec2Model ----
(***************************************************************************)
(* Schema / form / code correspondence of the API playground generator.    *)
(*                                                                         *)
(* A schema node is a record that carries only the keys the JSON node     *)
(* carries (a missing key is JavaScript's undefined):                      *)
(*   type, format : strings          enum, required : sequences of strings *)
(*   properties   : sequence of [name, schema] in insertion order          *)
(*   items        : schema node      anyOf, oneOf : sequences of nodes     *)
(*   discriminator: [propertyName]   default : string                      *)
(* A field name (a dot-qualified path) is the sequence of its segments, so *)
(* `${parent}.${name}` is concatenation and split('.').pop() is the last   *)
(* element; property names themselves hold no dot.                         *)
(***************************************************************************)
EXTENDS Integers, Sequences, FiniteSets, TLC

VARIABLES schema, op, normalized, fields, kind, parameters,
          config, arrayValue, lastChange,
          operation, formValues, samples,
          formFields, formData, userModifiedFields,
          selectedExample, urlFieldName, parsedValues,
          openapi,
          uiUrlField, urlValue, submitted,
          now, requestStore, answers,
          handlers, deduplicationStore,
          currentEndpointKeyRef, abortControllerRef, apiResponse, error, isLoading, requests

schemaVars == <<schema, op, normalized, fields, kind, parameters>>
formVars == <<config, arrayValue, lastChange>>
genVars == <<operation, formValues, samples>>
apiFormVars == <<formFields, formData, userModifiedFields>>
parseVars == <<selectedExample, urlFieldName, parsedValues>>
authVars == <<openapi>>
runVars == <<uiUrlField, urlValue, submitted>>
limitVars == <<now, requestStore, answers>>
dedupVars == <<handlers, deduplicationStore>>
pageVars == <<currentEndpointKeyRef, abortControllerRef, apiResponse, error, isLoading, requests>>
vars == <<schema, op, normalized, fields, kind, parameters, config, arrayValue, lastChange,
          operation, formValues, samples, formFields, formData, userModifiedFields,
          selectedExample, urlFieldName, parsedValues,
          openapi,
          uiUrlField, urlValue, submitted,
          now, requestStore, answers,
          handlers, deduplicationStore,
          currentEndpointKeyRef, abortControllerRef, apiResponse, error, isLoading, requests>>
NoDocument == [nil |-> TRUE]
NoUrlField == [nil |-> TRUE]
NoRequest == [nil |-> TRUE]
NoUrlValue == [nil |-> TRUE]
NoStore == [nil |-> TRUE]
NoOutcome == [nil |-> TRUE]

(* ------------------------------ bounds -------------------------------- *)
\* longest anyOf / oneOf list drawn for a union input
MaxVariants == 2
\* most items the array-of-object form field holds
MaxItems == 2
\* most entries of a form value map handed to the code sample generator
MaxEntries == 2

(* ------------------------------ helpers ------------------------------- *)
Has(s, f) == f \in DOMAIN s
Ext(r, k, v) == [f \in DOMAIN r \cup {k} |-> IF f = k THEN v ELSE r[f]]
\* JavaScript null / undefined where a schema node is expected
NoSchema == [nil |-> TRUE]
TypeOf(s) == IF Has(s, "type") THEN s.type ELSE "undefined"
FormatOf(s) == IF Has(s, "format") THEN s.format ELSE "undefined"
Includes(seq, x) == \E i \in 1..Len(seq) : seq[i] = x
Last(seq) == seq[Len(seq)]
HasProp(s, n) == Has(s, "properties") /\ \E i \in 1..Len(s.properties) : s.properties[i].name = n
\* s.properties[n]; a JSON object holds each key once
Prop(s, n) == s.properties[CHOOSE i \in 1..Len(s.properties) : s.properties[i].name = n].schema
RECURSIVE Flatten(_)
Flatten(seqs) == IF seqs = <<>> THEN <<>> ELSE Head(seqs) \o Flatten(Tail(seqs))
SeqsUpTo(S, n) == UNION {[1..k -> S] : k \in 0..n}

(* --------------------------- pickVariant ------------------------------ *)
Check(k, r) ==
    CASE k = 1 -> TypeOf(r) = "array" /\ Has(r, "items")
                  /\ (TypeOf(r.items) = "object" \/ Has(r.items, "properties"))
      [] k = 2 -> TypeOf(r) = "object" \/ Has(r, "properties")
      [] k = 3 -> TypeOf(r) = "array"
      [] k = 4 -> TypeOf(r) # "null"

\* the inner loop of pickVariant: the first variant passing check k
FirstPassing(variants, k) ==
    IF \E i \in 1..Len(variants) : Check(k, variants[i])
    THEN variants[CHOOSE i \in 1..Len(variants) :
                    /\ Check(k, variants[i])
                    /\ \A j \in 1..(i - 1) : ~Check(k, variants[j])]
    ELSE NoSchema

\* a plausible slip: the loops nested the other way round, so the first
\* variant that passes any check wins
pickVariantFirstAny(variants) ==
    IF \E i \in 1..Len(variants) : \E k \in 1..4 : Check(k, variants[i])
    THEN variants[CHOOSE i \in 1..Len(variants) :
                    /\ \E k \in 1..4 : Check(k, variants[i])
                    /\ \A j \in 1..(i - 1) : \A k \in 1..4 : ~Check(k, variants[j])]
    ELSE NoSchema

pickVariant(variants) ==
    IF Len(variants) = 0 THEN NoSchema
    ELSE IF FirstPassing(variants, 1) # NoSchema THEN FirstPassing(variants, 1)
    ELSE IF FirstPassing(variants, 2) # NoSchema THEN FirstPassing(variants, 2)
    ELSE IF FirstPassing(variants, 3) # NoSchema THEN FirstPassing(variants, 3)
    ELSE FirstPassing(variants, 4)

(* -------------------------- normalizeSchema --------------------------- *)
OrSchema(picked, s) == IF picked # NoSchema THEN picked ELSE s

\* a plausible slip: the chosen variant is spread over the union node
\* instead of replacing it, so the union markers survive
normalizeSchemaMerge(s) ==
    IF s = NoSchema THEN NoSchema
    ELSE IF Has(s, "anyOf") /\ pickVariant(s.anyOf) # NoSchema
    THEN LET p == pickVariant(s.anyOf)
         IN [f \in DOMAIN s \cup DOMAIN p |-> IF f \in DOMAIN p THEN p[f] ELSE s[f]]
    ELSE IF Has(s, "oneOf") /\ pickVariant(s.oneOf) # NoSchema
    THEN LET p == pickVariant(s.oneOf)
         IN [f \in DOMAIN s \cup DOMAIN p |-> IF f \in DOMAIN p THEN p[f] ELSE s[f]]
    ELSE s

normalizeSchema(s) ==
    IF s = NoSchema THEN NoSchema
    ELSE IF Has(s, "anyOf") /\ Has(s, "discriminator") /\ pickVariant(s.anyOf) # NoSchema
    THEN Ext(Ext(pickVariant(s.anyOf), "_discriminator", s.discriminator),
             "_allVariants", s.anyOf)
    ELSE IF Has(s, "anyOf") /\ ~Has(s, "discriminator")
    THEN OrSchema(pickVariant(s.anyOf), s)
    ELSE IF Has(s, "oneOf") THEN OrSchema(pickVariant(s.oneOf), s)
    ELSE s

(* ---------------------------- getFieldType ---------------------------- *)
\* a plausible slip: the enum test placed after the numeric test
getFieldTypeNumberFirst(s) ==
    IF TypeOf(s) = "boolean" THEN "switch"
    ELSE IF TypeOf(s) \in {"integer", "number"} THEN "number"
    ELSE IF Has(s, "enum") THEN "select"
    ELSE IF FormatOf(s) \in {"date-time", "datetime"} THEN "datetime"
    ELSE IF FormatOf(s) = "date" THEN "date"
    ELSE "text"

getFieldType(s) ==
    IF TypeOf(s) = "boolean" THEN "switch"
    ELSE IF Has(s, "enum") THEN "select"
    ELSE IF TypeOf(s) \in {"integer", "number"} THEN "number"
    ELSE IF FormatOf(s) \in {"date-time", "datetime"} THEN "datetime"
    ELSE IF FormatOf(s) = "date" THEN "date"
    ELSE "text"

(* ------------------------ mergeContentPartTypes ----------------------- *)
\* the content-part schemas one content variant contributes
PartsOfContentVariant(cv) ==
    IF TypeOf(cv) = "array" /\ Has(cv, "items")
    THEN IF Has(cv.items, "anyOf") THEN cv.items.anyOf ELSE <<cv.items>>
    ELSE <<>>

\* the content-part schemas one variant of the parent union contributes
PartsOfVariant(variant) ==
    IF TypeOf(variant) # "object" \/ ~HasProp(variant, "content") THEN <<>>
    ELSE LET contentProp == Prop(variant, "content")
         IN IF Has(contentProp, "anyOf")
            THEN Flatten([i \in 1..Len(contentProp.anyOf) |->
                            PartsOfContentVariant(contentProp.anyOf[i])])
            ELSE <<>>

mergeContentPartTypes(parentSchema) ==
    IF ~Has(parentSchema, "anyOf") \/ ~Has(parentSchema, "discriminator") THEN NoSchema
    ELSE LET allContentPartSchemas ==
                 Flatten([i \in 1..Len(parentSchema.anyOf) |->
                            PartsOfVariant(parentSchema.anyOf[i])])
         IN IF Len(allContentPartSchemas) > 1
            THEN [anyOf |-> allContentPartSchemas,
                  discriminator |-> [propertyName |-> "type"]]
            ELSE IF Len(allContentPartSchemas) = 1 THEN allContentPartSchemas[1]
            ELSE NoSchema

(* ----------------------- processSchemaProperties ---------------------- *)
\* A field descriptor (FormFieldConfig) is a record with name (path), type
\* (descriptor kind), required, and, only where the code sets them, nullable,
\* defaultValue, options, nestedFields and discriminator. Values are written
\* as their JSON text ("[]", "{}").
Req(s) == IF Has(s, "required") THEN s.required ELSE <<>>
IsObjectLike(s) == TypeOf(s) = "object" \/ Has(s, "properties")
getFieldName(field) == Last(field.name)

\* variant.properties.type?.enum?.[0], "" when undefined
TypeEnumOf(variant) ==
    IF HasProp(variant, "type") /\ Has(Prop(variant, "type"), "enum")
       /\ Len(Prop(variant, "type").enum) > 0
    THEN Prop(variant, "type").enum[1] ELSE ""

\* the variants of a merged content-part union that register a field list
Registering(variants) ==
    SelectSeq(variants, LAMBDA v : Has(v, "properties") /\ TypeEnumOf(v) # "")

\* keys of a JavaScript object in first-insertion order
RECURSIVE Dedup(_)
Dedup(seq) ==
    IF seq = <<>> THEN <<>>
    ELSE LET front == Dedup(SubSeq(seq, 1, Len(seq) - 1))
         IN IF Includes(front, Last(seq)) THEN front ELSE Append(front, Last(seq))

WithoutTypeField(fs) == SelectSeq(fs, LAMBDA f : getFieldName(f) # "type")

RECURSIVE processSchemaProperties(_, _, _), FieldFor(_, _, _, _)

\* the discriminated array-of-object descriptor of the content special case
ContentUnionField(merged, fieldName, isRequired) ==
    LET reg == Registering(merged.anyOf)
        allTypeEnums == [i \in 1..Len(reg) |-> TypeEnumOf(reg[i])]
        keys == Dedup(allTypeEnums)
        \* a later variant with the same type tag overwrites the earlier entry
        lastOf(k) == reg[CHOOSE i \in 1..Len(reg) :
                           /\ TypeEnumOf(reg[i]) = k
                           /\ \A j \in (i + 1)..Len(reg) : TypeEnumOf(reg[j]) # k]
        variantFields == [k \in {keys[i] : i \in 1..Len(keys)} |->
                            WithoutTypeField(
                              processSchemaProperties(lastOf(k), Req(lastOf(k)), <<>>))]
        typeField == [name |-> <<"type">>, type |-> "select", required |-> TRUE,
                      options |-> allTypeEnums]
    IN [name |-> fieldName, type |-> "array-object", required |-> isRequired,
        defaultValue |-> "[]",
        nestedFields |-> <<typeField>> \o Flatten([i \in 1..Len(keys) |-> variantFields[keys[i]]]),
        discriminator |-> [propertyName |-> "type", variants |-> variantFields]]

ArrayObjectField(fieldName, isRequired, nested) ==
    [name |-> fieldName, type |-> "array-object", required |-> isRequired,
     defaultValue |-> "[]", nestedFields |-> nested]

PrimitiveField(propSchema, fieldName, isRequired, isNullable) ==
    LET base == [name |-> fieldName, type |-> getFieldType(propSchema),
                 required |-> isRequired, nullable |-> isNullable]
        withDefault == IF TypeOf(propSchema) = "array" THEN Ext(base, "defaultValue", "[]")
                       ELSE IF Has(propSchema, "default")
                            THEN Ext(base, "defaultValue", propSchema.default)
                            ELSE base
    IN IF Has(propSchema, "enum") THEN Ext(withDefault, "options", propSchema.enum)
       ELSE withDefault

\* a plausible slip: the recursion into an object starts from an empty prefix
ObjectNestedNoPrefix(propSchema, fieldName) ==
    LET objectSchema == IF TypeOf(propSchema) = "object" THEN propSchema
                        ELSE normalizeSchema(propSchema)
    IN IF IsObjectLike(propSchema) /\ Has(objectSchema, "properties")
       THEN processSchemaProperties(objectSchema, Req(objectSchema), <<>>)
       ELSE <<>>

\* the nested fields of the object case; none when the case does not apply
ObjectNested(propSchema, fieldName) ==
    LET objectSchema == IF TypeOf(propSchema) = "object" THEN propSchema
                        ELSE normalizeSchema(propSchema)
    IN IF IsObjectLike(propSchema) /\ Has(objectSchema, "properties")
       THEN processSchemaProperties(objectSchema, Req(objectSchema), fieldName)
       ELSE <<>>

\* the body of the for-loop for one property: the descriptors it pushes
FieldFor(resolved, schemaRequired, parentName, p) ==
    LET prop == p.schema
        isNullable == Has(prop, "anyOf")
                      /\ \E i \in 1..Len(prop.anyOf) : TypeOf(prop.anyOf[i]) = "null"
        propSchema == normalizeSchema(prop)
        fieldName == parentName \o <<p.name>>
        isRequired == Includes(schemaRequired, p.name)
        merged == IF p.name = "content" /\ Has(resolved, "_discriminator")
                     /\ Has(resolved, "_allVariants")
                     /\ TypeOf(propSchema) = "array" /\ Has(propSchema, "items")
                  THEN mergeContentPartTypes([anyOf |-> resolved._allVariants,
                                              discriminator |-> resolved._discriminator])
                  ELSE NoSchema
        single == normalizeSchema(merged)
        singleNested == IF merged # NoSchema /\ ~Has(merged, "anyOf") /\ IsObjectLike(single)
                        THEN processSchemaProperties(single, Req(single), <<>>)
                        ELSE <<>>
        itemsSchema == normalizeSchema(propSchema.items)
        itemNested == IF IsObjectLike(itemsSchema)
                      THEN processSchemaProperties(itemsSchema, Req(itemsSchema), <<>>)
                      ELSE <<>>
        objNested == ObjectNested(propSchema, fieldName)
    IN IF propSchema = NoSchema THEN <<>>
       ELSE IF merged # NoSchema /\ Has(merged, "anyOf")
       THEN <<ContentUnionField(merged, fieldName, isRequired)>>
       ELSE IF Len(singleNested) > 0
       THEN <<ArrayObjectField(fieldName, isRequired, singleNested)>>
       ELSE IF TypeOf(propSchema) = "array" /\ Has(propSchema, "items")
       THEN IF Len(itemNested) > 0
            THEN <<ArrayObjectField(fieldName, isRequired, itemNested)>>
            ELSE IF Has(itemsSchema, "enum")
            THEN <<[name |-> fieldName, type |-> "multi-select", required |-> isRequired,
                    defaultValue |-> "[]", options |-> itemsSchema.enum]>>
            ELSE <<[name |-> fieldName, type |-> "array", required |-> isRequired,
                    defaultValue |-> "[]"]>>
       ELSE IF Len(objNested) > 0
       THEN <<[name |-> fieldName, type |-> "object", required |-> isRequired,
               defaultValue |-> IF Has(propSchema, "default") THEN propSchema.default ELSE "{}",
               nestedFields |-> objNested]>>
       ELSE <<PrimitiveField(propSchema, fieldName, isRequired, isNullable)>>

\* a plausible slip: the schema's own required list is ignored
processSchemaPropertiesPassedOnly(s, required, parentName) ==
    LET resolved == normalizeSchema(s)
    IN IF resolved = NoSchema \/ ~Has(resolved, "properties") THEN <<>>
       ELSE Flatten([i \in 1..Len(resolved.properties) |->
                       FieldFor(resolved, required, parentName, resolved.properties[i])])

processSchemaProperties(s, required, parentName) ==
    LET resolved == normalizeSchema(s)
    IN IF resolved = NoSchema \/ ~Has(resolved, "properties") THEN <<>>
       ELSE LET schemaRequired == IF Has(resolved, "required") THEN resolved.required
                                  ELSE required
            IN Flatten([i \in 1..Len(resolved.properties) |->
                          FieldFor(resolved, schemaRequired, parentName,
                                   resolved.properties[i])])

(* ------------------------ parseOpenAPIToConfig ------------------------ *)
\* An operation parameter is a record [name, in, schema] with required where
\* the document states it. The descriptors the loop over the parameters
\* pushes; urlField is the name of the configured URL field, "" when the
\* endpoint configures none.
ParameterField(param) ==
    LET paramSchema == param.schema
        itemsSchema == normalizeSchema(paramSchema.items)
        multi == TypeOf(paramSchema) = "array" /\ Has(paramSchema, "items")
                 /\ itemsSchema # NoSchema /\ Has(itemsSchema, "enum")
        base == [name |-> <<param.name>>,
                 type |-> IF multi THEN "multi-select" ELSE getFieldType(paramSchema),
                 required |-> Has(param, "required") /\ param.required]
        withDefault == IF TypeOf(paramSchema) = "array" THEN Ext(base, "defaultValue", "[]")
                       ELSE IF Has(paramSchema, "default")
                            THEN Ext(base, "defaultValue", paramSchema.default)
                            ELSE base
    IN IF multi THEN Ext(withDefault, "options", itemsSchema.enum)
       ELSE IF Has(paramSchema, "enum") THEN Ext(withDefault, "options", paramSchema.enum)
       ELSE withDefault

ParameterFields(params, urlField) ==
    LET kept == SelectSeq(params, LAMBDA param :
                    ~(param.in = "path" \/ (urlField # "" /\ param.name = urlField)))
    IN [i \in 1..Len(kept) |-> ParameterField(kept[i])]

BodyField(type) == [name |-> <<"body">>, type |-> type, required |-> TRUE]

\* the descriptors the request-body part pushes
\* the body field of a primitive body whose normalized schema is n
PrimitiveBodyField(n, base) ==
    LET withDefault == IF Has(n, "default") THEN Ext(base, "defaultValue", n.default) ELSE base
    IN IF Has(n, "enum") THEN Ext(withDefault, "options", n.enum) ELSE withDefault
\* the body field of an array body whose normalized items are itemsSchema
\* and whose item fields are nested
ArrayBodyFields(itemsSchema, nested) ==
    IF itemsSchema # NoSchema /\ IsObjectLike(itemsSchema)
    THEN IF Len(nested) > 0
         THEN <<Ext(Ext(BodyField("array-object"), "defaultValue", "[]"),
                    "nestedFields", nested)>>
         ELSE <<>>
    ELSE IF itemsSchema # NoSchema /\ Has(itemsSchema, "enum")
    THEN <<Ext(Ext(BodyField("multi-select"), "defaultValue", "[]"),
               "options", itemsSchema.enum)>>
    ELSE <<Ext(BodyField("array"), "defaultValue", "[]")>>
\* the fields of a body whose normalized schema is n; walked are the
\* fields processSchemaProperties derives from n or, for an array, from
\* its normalized items
NormalizedBodyFields(n, itemsSchema, walked) ==
    IF TypeOf(n) = "array" THEN ArrayBodyFields(itemsSchema, walked)
    ELSE IF Has(n, "type") /\ n.type # "object" /\ ~Has(n, "properties")
    THEN <<PrimitiveBodyField(n, BodyField(getFieldType(n)))>>
    ELSE walked
NormalizedItems(n) == IF Has(n, "items") THEN normalizeSchema(n.items) ELSE NoSchema
WalkedSchema(n, itemsSchema) == IF TypeOf(n) = "array" THEN itemsSchema ELSE n
WalkedRequired(n, itemsSchema) == IF TypeOf(n) = "array" THEN Req(itemsSchema) ELSE <<>>
BodyFieldsOf(n, itemsSchema) ==
    NormalizedBodyFields(n, itemsSchema,
        processSchemaProperties(WalkedSchema(n, itemsSchema),
                                WalkedRequired(n, itemsSchema), <<>>))
ItemsAndBodyFields(n) == BodyFieldsOf(n, NormalizedItems(n))
RequestBodyFields(requestBodySchema) ==
    IF requestBodySchema = NoSchema THEN <<>>
    ELSE ItemsAndBodyFields(normalizeSchema(requestBodySchema))

(* ------------------------- schemas drawn as input --------------------- *)
P(n, s) == [name |-> n, schema |-> s]
StrS == [type |-> "string"]
NullS == [type |-> "null"]
IntS == [type |-> "integer"]
Obj1 == [type |-> "object", properties |-> <<P("id", StrS)>>, required |-> <<"id">>]
ArrStr == [type |-> "array", items |-> StrS]
ArrObj == [type |-> "array", items |-> Obj1]

\* one variant of every shape the four tests of pickVariant tell apart
VariantPool ==
    { ArrObj,
      [type |-> "array", items |-> [properties |-> <<P("id", StrS)>>]],
      Obj1,
      [type |-> "object"],
      [properties |-> <<P("id", IntS)>>],
      ArrStr,
      [type |-> "array"],
      StrS,
      [enum |-> <<"a", "b">>],
      NullS,
      [anyOf |-> <<StrS, NullS>>] }

Disc(p) == [propertyName |-> p]

UnionInputs ==
    LET lists == SeqsUpTo(VariantPool, MaxVariants)
        other == {<<Obj1>>, <<NullS>>}
        plain == {[anyOf |-> l] : l \in lists} \cup {[oneOf |-> l] : l \in lists}
                 \cup {[anyOf |-> l, oneOf |-> o] : l \in lists, o \in other}
    IN plain \cup {Ext(u, "discriminator", Disc("type")) : u \in plain}

\* content parts of a message schema, keyed by the enum of their type property
Tag(v) == [type |-> "string", enum |-> <<v>>]
TextPart == [type |-> "object",
             properties |-> <<P("type", Tag("text")), P("text", StrS)>>,
             required |-> <<"type", "text">>]
ImagePart == [type |-> "object",
              properties |-> <<P("type", Tag("image")), P("url", StrS),
                               P("detail", [type |-> "string", enum |-> <<"low", "high">>,
                                            default |-> "low"])>>,
              required |-> <<"type", "url">>]
\* the type tag declared but not required
AudioPart == [type |-> "object",
              properties |-> <<P("type", Tag("audio")),
                               P("audio", [type |-> "object",
                                           properties |-> <<P("data", StrS), P("type", StrS)>>,
                                           required |-> <<"data">>]),
                               P("tags", ArrStr)>>,
              required |-> <<"audio">>]
\* a second part with the tag "text"
RefusalPart == [type |-> "object",
                properties |-> <<P("type", Tag("text")), P("refusal", StrS)>>,
                required |-> <<"refusal">>]
\* a part whose type property carries no enum
FilePart == [type |-> "object",
             properties |-> <<P("type", StrS), P("file", StrS)>>]
PartPool == {TextPart, ImagePart, AudioPart, RefusalPart, FilePart}

ItemsOf(parts) == IF Len(parts) = 1 THEN parts[1] ELSE [anyOf |-> parts]
Msg(role, parts) ==
    [type |-> "object",
     properties |-> <<P("role", Tag(role)),
                      P("content", [anyOf |-> <<StrS, [type |-> "array",
                                                      items |-> ItemsOf(parts)]>>])>>,
     required |-> <<"role", "content">>]
\* a message whose content is a plain array, not a union
ToolMsg == [type |-> "object",
            properties |-> <<P("role", Tag("tool")),
                             P("content", [type |-> "array", items |-> TextPart])>>,
            required |-> <<"role">>]

MessageInputs ==
    LET partLists == SeqsUpTo(PartPool, MaxVariants) \ {<<>>}
        rest == {<<>>, <<Msg("assistant", <<TextPart>>)>>, <<ToolMsg>>}
    IN {[anyOf |-> <<Msg("user", l)>> \o r, discriminator |-> Disc("role")] :
            l \in partLists, r \in rest}
       \cup {[anyOf |-> <<ToolMsg>> \o r, discriminator |-> Disc("role")] : r \in rest}

\* property schemas: one of every shape processSchemaProperties tells apart
PrimitivePool ==
    { StrS, IntS, NullS,
      [type |-> "number"],
      [type |-> "boolean"],
      [type |-> "boolean", enum |-> <<"true">>],
      [type |-> "string", enum |-> <<"a", "b">>],
      [type |-> "integer", enum |-> <<"1", "2">>],
      [type |-> "integer", format |-> "date"],
      [type |-> "string", format |-> "date"],
      [type |-> "string", format |-> "date-time"],
      [type |-> "string", format |-> "datetime"],
      [type |-> "string", format |-> "email"],
      [type |-> "string", default |-> "x"],
      [format |-> "date"],
      [enum |-> <<"a">>, format |-> "date-time"] }

\* an object that lists required names itself and declares its properties in a variant
ObjUnion == [type |-> "object", properties |-> <<P("z", StrS)>>, required |-> <<"id">>,
             anyOf |-> <<[properties |-> <<P("id", StrS), P("x", StrS)>>]>>]
DiscItems == [anyOf |-> <<TextPart, ImagePart>>, discriminator |-> Disc("type")]
Obj2 == [type |-> "object",
         properties |-> <<P("inner", Obj1), P("n", IntS)>>,
         required |-> <<"inner">>]

StructuredPool ==
    { ArrStr, ArrObj, Obj1, Obj2, ObjUnion,
      [type |-> "array", items |-> ObjUnion],
      [type |-> "array"],
      [type |-> "array", items |-> [type |-> "string", enum |-> <<"a", "b">>]],
      [type |-> "array", items |-> [type |-> "object"]],
      [type |-> "array", items |-> DiscItems],
      [type |-> "array", items |-> [oneOf |-> <<TextPart, ImagePart>>,
                                    discriminator |-> Disc("type")]],
      [type |-> "array", items |-> [anyOf |-> <<Obj1, NullS>>]],
      [type |-> "object"],
      [type |-> "object", properties |-> <<>>],
      [type |-> "object", properties |-> <<P("id", StrS)>>],
      [properties |-> <<P("id", StrS)>>, required |-> <<>>],
      [type |-> "object", properties |-> <<P("empty", [type |-> "object", properties |-> <<>>])>>] }

NullablePool ==
    { [anyOf |-> <<StrS, NullS>>],
      [anyOf |-> <<NullS, IntS>>],
      [anyOf |-> <<NullS>>],
      [anyOf |-> <<StrS, IntS>>],
      [anyOf |-> <<ArrStr, NullS>>],
      [anyOf |-> <<ArrObj, NullS>>],
      [anyOf |-> <<Obj1, NullS>>],
      [oneOf |-> <<StrS, NullS>>],
      [oneOf |-> <<StrS, IntS>>],
      [oneOf |-> <<NullS, Obj1>>],
      [anyOf |-> <<ObjUnion, NullS>>] }

PropertyPool == PrimitivePool \cup StructuredPool \cup NullablePool

ObjectInputs ==
    LET props == {<<P(n, s)>> : n \in {"a", "content", "type"}, s \in PropertyPool}
                 \cup {<<P("a", s), P("b", StrS)>> : s \in PropertyPool}
        reqs == {<<>>, <<"a">>, <<"b", "content", "type">>}
    IN {[type |-> "object", properties |-> ps] : ps \in props}
       \cup {[type |-> "object", properties |-> ps, required |-> r] : ps \in props, r \in reqs}
       \cup {[properties |-> <<P("a", s)>>, required |-> <<"a">>] : s \in NullablePool}

SchemaInputs == UnionInputs \cup MessageInputs \cup ObjectInputs \cup PropertyPool

\* parameter lists of an operation, and the URL field an endpoint may configure
Param(n, loc, s) == [name |-> n, in |-> loc, schema |-> s]
ParameterInputs ==
    { <<>>,
      <<Param("id", "path", StrS)>>,
      <<Param("id", "path", StrS),
        Ext(Param("limit", "query", [type |-> "integer", default |-> "10"]),
            "required", TRUE)>>,
      <<Param("tags", "query", [type |-> "array",
                                items |-> [type |-> "string", enum |-> <<"a", "b">>]]),
        Param("q", "query", StrS)>> }
UrlFieldInputs == {"", "id", "q"}

(* ------------------------------ the form ------------------------------ *)
\* The value of an array-of-object field is a sequence of items; an item is
\* a function from the keys it holds to their values (JSON text).
NoConfig == [name |-> <<>>, type |-> "none", required |-> FALSE]
NoItem == [k \in {} |-> ""]
NoChange == [kind |-> "none", index |-> 0, value |-> "", before |-> NoItem]
Changed(k, i, v, b) == [kind |-> k, index |-> i, value |-> v, before |-> b]

\* nestedFields.find(f => getFieldName(f) === discriminator.propertyName)
TypeFieldOf(cfg) ==
    LET hits == SelectSeq(cfg.nestedFields,
                          LAMBDA f : getFieldName(f) = cfg.discriminator.propertyName)
    IN IF hits = <<>> THEN <<>> ELSE <<Head(hits)>>

\* a plausible slip: every nested field is shown whatever the item's type
getFieldsForItemAll(cfg, item) == cfg.nestedFields

getFieldsForItem(cfg, item) ==
    IF ~Has(cfg, "discriminator") THEN cfg.nestedFields
    ELSE IF /\ Has(item, cfg.discriminator.propertyName)
            /\ item[cfg.discriminator.propertyName] # ""
            /\ item[cfg.discriminator.propertyName] \in DOMAIN cfg.discriminator.variants
    THEN TypeFieldOf(cfg) \o cfg.discriminator.variants[item[cfg.discriminator.propertyName]]
    ELSE TypeFieldOf(cfg)

\* newItem of handleAddItem after the first n nested fields
RECURSIVE Defaults(_, _)
Defaults(nested, n) ==
    IF n = 0 THEN NoItem
    ELSE IF Has(nested[n], "defaultValue")
    THEN Ext(Defaults(nested, n - 1), getFieldName(nested[n]), nested[n].defaultValue)
    ELSE Defaults(nested, n - 1)

\* a plausible slip: the item is updated and nothing is cleared
ItemAfterChangeKeepAll(cfg, item, fieldName, val) == Ext(item, fieldName, val)

\* the onChange callback of one field of one item: the item handed to
\* handleItemChange
ItemAfterChange(cfg, item, fieldName, val) ==
    LET updatedItem == Ext(item, fieldName, val)
    IN IF /\ Has(cfg, "discriminator")
          /\ fieldName = cfg.discriminator.propertyName
          /\ (~Has(item, fieldName) \/ item[fieldName] # val)
       THEN LET variantFields == IF val \in DOMAIN cfg.discriminator.variants
                                 THEN cfg.discriminator.variants[val] ELSE <<>>
                variantFieldNames == {getFieldName(variantFields[j]) :
                                        j \in 1..Len(variantFields)}
            IN [k \in {k \in DOMAIN updatedItem :
                         k = cfg.discriminator.propertyName \/ k \in variantFieldNames}
                  |-> updatedItem[k]]
       ELSE updatedItem

\* what the control of a field can hand to onChange
ValuesOf(f) ==
    CASE f.type = "select" -> {f.options[j] : j \in 1..Len(f.options)}
      [] f.type = "text" -> {"hello"}
      [] f.type = "array" -> {"[\"a\"]"}
      [] f.type = "object" -> {"{\"data\":\"d\"}"}
      [] OTHER -> {"1"}

\* message schemas whose content field the form edits
FormRoots ==
    { [anyOf |-> <<Msg("user", <<TextPart, ImagePart>>)>>, discriminator |-> Disc("role")],
      [anyOf |-> <<Msg("user", <<AudioPart, TextPart>>)>>, discriminator |-> Disc("role")],
      [anyOf |-> <<Msg("user", <<ImagePart, RefusalPart>>), Msg("assistant", <<TextPart>>)>>,
       discriminator |-> Disc("role")] }
ContentField(fs) == Head(SelectSeq(fs, LAMBDA f : getFieldName(f) = "content"))

(* --------------------------- specification ---------------------------- *)
\* what the variables of the code sample generator hold while it is idle
NoOperation == [nil |-> TRUE]
NoFormValues == [nil |-> TRUE]
NoSamples == [nil |-> TRUE]
NoExample == [nil |-> TRUE]
NoParsed == [nil |-> TRUE]

Init ==
    /\ schema \in SchemaInputs
    /\ op = "init"
    /\ normalized = NoSchema
    /\ fields = <<>>
    /\ kind = ""
    /\ parameters = <<>>
    /\ config = NoConfig
    /\ arrayValue = <<>>
    /\ lastChange = NoChange
    /\ operation = NoOperation
    /\ formValues = NoFormValues
    /\ samples = NoSamples
    /\ formFields = <<>>
    /\ formData = NoFormValues
    /\ userModifiedFields = {}
    /\ selectedExample = NoExample
    /\ urlFieldName = ""
    /\ parsedValues = NoParsed
    /\ openapi = NoDocument
    /\ uiUrlField = NoUrlField
    /\ urlValue = NoUrlValue
    /\ submitted = NoRequest
    /\ now = 0
    /\ requestStore = NoStore
    /\ answers = <<>>
    /\ handlers = <<>>
    /\ deduplicationStore = {}
    /\ currentEndpointKeyRef = ""
    /\ abortControllerRef = 0
    /\ apiResponse = NoOutcome
    /\ error = NoOutcome
    /\ isLoading = FALSE
    /\ requests = <<>>

DoNormalizeSchema ==
    /\ op = "init"
    /\ op' = "normalizeSchema"
    /\ normalized' = normalizeSchema(schema)
    /\ UNCHANGED <<schema, fields, kind, parameters, formVars, genVars, apiFormVars, parseVars, authVars, runVars, limitVars, dedupVars, pageVars>>

DoProcessSchemaProperties ==
    /\ op = "init"
    /\ op' = "processSchemaProperties"
    /\ fields' = processSchemaProperties(schema, <<>>, <<>>)
    /\ UNCHANGED <<schema, normalized, kind, parameters, formVars, genVars, apiFormVars, parseVars, authVars, runVars, limitVars, dedupVars, pageVars>>

DoGetFieldType ==
    /\ op = "init"
    /\ op' = "getFieldType"
    /\ kind' = getFieldType(schema)
    /\ UNCHANGED <<schema, normalized, fields, parameters, formVars, genVars, apiFormVars, parseVars, authVars, runVars, limitVars, dedupVars, pageVars>>

\* the form fields of an endpoint whose request body is the schema drawn
DoParseOpenAPIToConfig ==
    /\ op = "init"
    /\ op' = "parseOpenAPIToConfig"
    /\ \E ps \in ParameterInputs, urlField \in UrlFieldInputs :
          /\ parameters' = ParameterFields(ps, urlField)
          /\ fields' = parameters' \o RequestBodyFields(schema)
    /\ UNCHANGED <<schema, normalized, kind, formVars, genVars, apiFormVars, parseVars, authVars, runVars, limitVars, dedupVars, pageVars>>

Next ==
    \/ DoNormalizeSchema
    \/ DoProcessSchemaProperties
    \/ DoGetFieldType
    \/ DoParseOpenAPIToConfig

Spec == Init /\ [][Next]_vars

(* ------------------------------- claims ------------------------------- *)
\* the four ranked tests, in the words of the specification
IsArrayOfObjects(v) ==
    TypeOf(v) = "array" /\ Has(v, "items")
    /\ (TypeOf(v.items) = "object" \/ Has(v.items, "properties"))
IsObjectShaped(v) == TypeOf(v) = "object" \/ Has(v, "properties")
IsArray(v) == TypeOf(v) = "array"
IsNotNull(v) == TypeOf(v) # "null"
\* rank of the best test a variant passes; 5 when it passes none
Rank(v) ==
    IF IsArrayOfObjects(v) THEN 1 ELSE IF IsObjectShaped(v) THEN 2
    ELSE IF IsArray(v) THEN 3 ELSE IF IsNotNull(v) THEN 4 ELSE 5
BestRank(vs) ==
    IF vs = <<>> THEN 5
    ELSE CHOOSE r \in 1..5 : /\ \E i \in 1..Len(vs) : Rank(vs[i]) = r
                             /\ \A i \in 1..Len(vs) : Rank(vs[i]) >= r
\* the first variant, in list order, of the best rank
Representative(vs) ==
    vs[CHOOSE i \in 1..Len(vs) : /\ Rank(vs[i]) = BestRank(vs)
                                 /\ \A j \in 1..(i - 1) : Rank(vs[j]) # BestRank(vs)]
IsUnion(s) == Has(s, "anyOf") \/ Has(s, "oneOf")
\* the variant list of a union node (anyOf where a node carries both markers)
UnionList(s) == IF Has(s, "anyOf") THEN s.anyOf ELSE s.oneOf
Tagged(v, s) == Ext(Ext(v, "_discriminator", s.discriminator), "_allVariants", UnionList(s))

\* C1: for a union node without discriminator, normalizeSchema returns the
\* first variant in list order that passes the highest-ranked test any
\* variant passes, and the original node when no variant passes any test.
C1_PickByPriority ==
    (op = "normalizeSchema" /\ IsUnion(schema) /\ ~Has(schema, "discriminator"))
    => normalized = IF BestRank(UnionList(schema)) = 5 THEN schema
                    ELSE Representative(UnionList(schema))

\* C1 witness: a lower-ranked variant stands first and the array-of-object
\* variant behind it is returned.
C1_Witness ==
    /\ op = "normalizeSchema"
    /\ ~Has(schema, "discriminator")
    /\ Has(schema, "oneOf") /\ ~Has(schema, "anyOf")
    /\ schema.oneOf = <<Obj1, ArrObj>>
    /\ normalized = ArrObj

\* C2 (as claimed): every node with a discriminator and a union (anyOf or
\* oneOf) holding a qualifying variant normalizes to the representative
\* variant tagged with _discriminator and _allVariants.
C2_DiscriminatorTagged ==
    (op = "normalizeSchema" /\ IsUnion(schema) /\ Has(schema, "discriminator")
       /\ BestRank(UnionList(schema)) < 5)
    => normalized = Tagged(Representative(UnionList(schema)), schema)

Walked == normalizeSchema(schema).properties
Processed ==
    op = "processSchemaProperties" /\ Has(normalizeSchema(schema), "properties")
HasNullVariant(s) ==
    \/ Has(s, "anyOf") /\ \E i \in 1..Len(s.anyOf) : TypeOf(s.anyOf[i]) = "null"
    \/ Has(s, "oneOf") /\ \E i \in 1..Len(s.oneOf) : TypeOf(s.oneOf[i]) = "null"
IsNullableField(f) == Has(f, "nullable") /\ f.nullable

\* C4 (as claimed): the descriptor of a property has nullable = true iff the
\* property's schema is a union (anyOf or oneOf) with a variant of type
\* null, whatever kind of descriptor the remaining variant yields.
C4_NullableRecorded ==
    Processed
    => \A i \in 1..Len(Walked) :
          IsNullableField(fields[i]) <=> HasNullVariant(Walked[i].schema)

\* the required list in effect inside processSchemaProperties(s, passed, _)
EffectiveRequired(s, passed) ==
    IF Has(normalizeSchema(s), "required") THEN normalizeSchema(s).required ELSE passed
\* the schema processSchemaProperties recurses into for an object property
ObjectSchemaOf(prop) ==
    IF TypeOf(normalizeSchema(prop)) = "object" THEN normalizeSchema(prop)
    ELSE normalizeSchema(normalizeSchema(prop))
ItemSchemaOf(prop) == normalizeSchema(normalizeSchema(prop).items)
RequiredAsListed(fs, names) ==
    \A j \in 1..Len(fs) : fs[j].required <=> Includes(names, getFieldName(fs[j]))
\* the content parts behind a discriminated content descriptor
ContentParts ==
    Registering(mergeContentPartTypes([anyOf |-> schema.anyOf,
                                       discriminator |-> schema.discriminator]).anyOf)
PartsTagged(k) == {i \in 1..Len(ContentParts) : TypeEnumOf(ContentParts[i]) = k}
PartRegistered(k) == ContentParts[CHOOSE i \in PartsTagged(k) : \A j \in PartsTagged(k) : j <= i]
IsPlainNested(f) == Has(f, "nestedFields") /\ ~Has(f, "discriminator")

\* C5 (as claimed): every descriptor, nested ones and the fields of
\* discriminator variants included, is required iff its property name is in
\* the required set of the schema that declares the property. For the
\* discriminator select, declared by every content part, the claim is read
\* in its weakest form: some part lists the discriminator as required.
C5_RequiredIffListed ==
    Processed
    => /\ RequiredAsListed(fields, EffectiveRequired(schema, <<>>))
       /\ \A i \in 1..Len(Walked) :
            /\ (fields[i].type = "object")
               => RequiredAsListed(fields[i].nestedFields,
                                   EffectiveRequired(ObjectSchemaOf(Walked[i].schema),
                                                     Req(ObjectSchemaOf(Walked[i].schema))))
            /\ (fields[i].type = "array-object" /\ ~IsUnion(schema))
               => RequiredAsListed(fields[i].nestedFields,
                                   EffectiveRequired(ItemSchemaOf(Walked[i].schema),
                                                     Req(ItemSchemaOf(Walked[i].schema))))
            /\ Has(fields[i], "discriminator")
               => /\ \A k \in DOMAIN fields[i].discriminator.variants :
                        RequiredAsListed(fields[i].discriminator.variants[k],
                                         Req(PartRegistered(k)))
                  /\ fields[i].nestedFields[1].required
                     <=> \E n \in 1..Len(ContentParts) : Includes(Req(ContentParts[n]), "type")

\* C5 (amended): every descriptor built from a schema property is required
\* iff its property name is in the required set of the schema that declares
\* the property (the resolved schema's own list or, when it has none, the
\* list of the schema it was resolved from); the discriminator select
\* synthesized for a discriminated content array is always required.
C5_RequiredInEffect ==
    Processed
    => /\ RequiredAsListed(fields, EffectiveRequired(schema, <<>>))
       /\ \A i \in 1..Len(Walked) :
            /\ (fields[i].type = "object")
               => RequiredAsListed(fields[i].nestedFields,
                                   EffectiveRequired(ObjectSchemaOf(Walked[i].schema),
                                                     Req(ObjectSchemaOf(Walked[i].schema))))
            /\ (fields[i].type = "array-object" /\ ~IsUnion(schema))
               => RequiredAsListed(fields[i].nestedFields,
                                   EffectiveRequired(ItemSchemaOf(Walked[i].schema),
                                                     Req(ItemSchemaOf(Walked[i].schema))))
            /\ Has(fields[i], "discriminator")
               => /\ \A k \in DOMAIN fields[i].discriminator.variants :
                        RequiredAsListed(fields[i].discriminator.variants[k],
                                         Req(PartRegistered(k)))
                  /\ fields[i].nestedFields[1].name = <<"type">>
                  /\ fields[i].nestedFields[1].required

\* C5 witness: a nested descriptor is required and its sibling is not, under
\* a parent that is itself not required.
C5_Witness ==
    /\ Processed
    /\ Len(fields) = 1
    /\ fields[1].type = "object" /\ ~fields[1].required
    /\ Len(fields[1].nestedFields) = 2
    /\ fields[1].nestedFields[1].required
    /\ ~fields[1].nestedFields[2].required

\* an array property whose items are a discriminated union of objects
IsDiscriminatedArray(s) ==
    /\ TypeOf(s) = "array" /\ Has(s, "items")
    /\ IsUnion(s.items) /\ Has(s.items, "discriminator")
    /\ \A n \in 1..Len(UnionList(s.items)) : TypeOf(UnionList(s.items)[n]) = "object"
\* the value a variant holds in the discriminator property
DiscValue(v, pn) ==
    IF HasProp(v, pn) /\ Has(Prop(v, pn), "enum") /\ Len(Prop(v, pn).enum) > 0
    THEN Prop(v, pn).enum[1] ELSE ""

\* C6 (as claimed): an array property whose item schema is a discriminated
\* union of object variants yields an array-of-object descriptor whose
\* discriminator.variants map has one entry per discriminator value, each
\* the fields of that variant without the discriminator field, and whose
\* nested fields hold the discriminator field exactly once, as a select.
C6_DiscriminatedArrayField ==
    (Processed /\ ~IsUnion(schema))
    => \A i \in 1..Len(Walked) :
          IsDiscriminatedArray(Walked[i].schema)
          => LET items == Walked[i].schema.items
                 pn == items.discriminator.propertyName
                 vs == UnionList(items)
             IN /\ fields[i].type = "array-object"
                /\ Has(fields[i], "discriminator")
                /\ DOMAIN fields[i].discriminator.variants
                      = {DiscValue(vs[n], pn) : n \in 1..Len(vs)}
                /\ \A n \in 1..Len(vs) :
                      fields[i].discriminator.variants[DiscValue(vs[n], pn)]
                        = SelectSeq(processSchemaProperties(vs[n], Req(vs[n]), <<>>),
                                    LAMBDA f : getFieldName(f) # pn)
                /\ Cardinality({j \in 1..Len(fields[i].nestedFields) :
                                  getFieldName(fields[i].nestedFields[j]) = pn}) = 1
                /\ \A j \in 1..Len(fields[i].nestedFields) :
                      getFieldName(fields[i].nestedFields[j]) = pn
                      => fields[i].nestedFields[j].type = "select"

\* C9 (as claimed): boolean gives switch; otherwise an enum gives select;
\* otherwise integer or number gives number; otherwise format date-time
\* gives datetime and format date gives date; anything else gives text.
C9_FieldTypePrecedence ==
    (op = "getFieldType")
    => kind = IF TypeOf(schema) = "boolean" THEN "switch"
              ELSE IF Has(schema, "enum") THEN "select"
              ELSE IF TypeOf(schema) = "integer" \/ TypeOf(schema) = "number" THEN "number"
              ELSE IF FormatOf(schema) = "date-time" THEN "datetime"
              ELSE IF FormatOf(schema) = "date" THEN "date"
              ELSE "text"

\* C9 (amended): the same precedence, where the format datetime gives
\* datetime just as date-time does.
C9_FieldTypePrecedenceDatetime ==
    (op = "getFieldType")
    => kind = IF TypeOf(schema) = "boolean" THEN "switch"
              ELSE IF Has(schema, "enum") THEN "select"
              ELSE IF TypeOf(schema) = "integer" \/ TypeOf(schema) = "number" THEN "number"
              ELSE IF FormatOf(schema) = "date-time" \/ FormatOf(schema) = "datetime"
                   THEN "datetime"
              ELSE IF FormatOf(schema) = "date" THEN "date"
              ELSE "text"

\* C9 witness: an integer schema with an enum maps to select, not number.
C9_Witness ==
    /\ op = "getFieldType"
    /\ TypeOf(schema) = "integer" /\ Has(schema, "enum")
    /\ kind = "select"

\* a property that reaches the object case: its normalized schema is an
\* object and neither an array with items nor a content array
IsObjectProperty(prop) ==
    /\ IsObjectLike(normalizeSchema(prop))
    /\ ~(TypeOf(normalizeSchema(prop)) = "array" /\ Has(normalizeSchema(prop), "items"))
Recursion(i) ==
    IF Has(ObjectSchemaOf(Walked[i].schema), "properties")
    THEN processSchemaProperties(ObjectSchemaOf(Walked[i].schema),
                                 Req(ObjectSchemaOf(Walked[i].schema)),
                                 <<Walked[i].name>>)
    ELSE <<>>

\* every field nested in an object descriptor is named parent.child
RECURSIVE NamesExtend(_)
NamesExtend(f) ==
    (f.type = "object")
    => \A j \in 1..Len(f.nestedFields) :
          /\ f.nestedFields[j].name = f.name \o <<getFieldName(f.nestedFields[j])>>
          /\ NamesExtend(f.nestedFields[j])

\* C10: for a property whose normalized schema is an object the recursion
\* runs with the prefix extended by the property name (nested names are
\* parent.child); an object descriptor holding the nested fields is emitted
\* iff the recursion yields at least one field, a primitive one otherwise.
C10_ObjectOrPrimitive ==
    Processed
    => \A i \in 1..Len(Walked) :
          IsObjectProperty(Walked[i].schema)
          => IF Len(Recursion(i)) > 0
             THEN /\ fields[i].type = "object"
                  /\ fields[i].nestedFields = Recursion(i)
                  /\ fields[i].name = <<Walked[i].name>>
                  /\ NamesExtend(fields[i])
             ELSE /\ fields[i].type = getFieldType(normalizeSchema(Walked[i].schema))
                  /\ ~Has(fields[i], "nestedFields")

\* C10 witness: an object two levels deep, whose innermost field is named
\* by the whole path.
C10_Witness ==
    /\ Processed
    /\ Len(fields) = 1
    /\ fields[1].type = "object" /\ fields[1].name = <<"a">>
    /\ fields[1].nestedFields[1].type = "object"
    /\ fields[1].nestedFields[1].name = <<"a", "inner">>
    /\ fields[1].nestedFields[1].nestedFields[1].name = <<"a", "inner", "id">>

\* the fields the request body contributed: those after the parameters'
BodyContribution == SubSeq(fields, Len(parameters) + 1, Len(fields))
\* the top-level shapes the body pseudo-field is promised for
IsArrayBody(s) == TypeOf(normalizeSchema(s)) = "array"
IsPrimitiveBody(s) ==
    /\ TypeOf(normalizeSchema(s)) \in {"string", "integer", "number", "boolean"}
    /\ ~Has(normalizeSchema(s), "properties")

\* C11: a request body whose normalized top-level schema is an array or a
\* bare primitive contributes exactly one form field, and it is named body.
C11_BodyPseudoField ==
    (op = "parseOpenAPIToConfig" /\ (IsArrayBody(schema) \/ IsPrimitiveBody(schema)))
    => /\ Len(BodyContribution) = 1
       /\ BodyContribution[1].name = <<"body">>

(* ----------------- specification of the array-of-object field --------- *)
InitForm ==
    /\ schema = NoSchema
    /\ op = "form"
    /\ normalized = NoSchema
    /\ fields = <<>>
    /\ kind = ""
    /\ parameters = <<>>
    /\ config \in {ContentField(processSchemaProperties(r, <<>>, <<>>)) : r \in FormRoots}
    /\ arrayValue = <<>>
    /\ lastChange = NoChange
    /\ operation = NoOperation
    /\ formValues = NoFormValues
    /\ samples = NoSamples
    /\ formFields = <<>>
    /\ formData = NoFormValues
    /\ userModifiedFields = {}
    /\ selectedExample = NoExample
    /\ urlFieldName = ""
    /\ parsedValues = NoParsed
    /\ openapi = NoDocument
    /\ uiUrlField = NoUrlField
    /\ urlValue = NoUrlValue
    /\ submitted = NoRequest
    /\ now = 0
    /\ requestStore = NoStore
    /\ answers = <<>>
    /\ handlers = <<>>
    /\ deduplicationStore = {}
    /\ currentEndpointKeyRef = ""
    /\ abortControllerRef = 0
    /\ apiResponse = NoOutcome
    /\ error = NoOutcome
    /\ isLoading = FALSE
    /\ requests = <<>>

handleAddItem ==
    /\ Len(arrayValue) < MaxItems
    /\ arrayValue' = Append(arrayValue, Defaults(config.nestedFields, Len(config.nestedFields)))
    /\ lastChange' = Changed("add", Len(arrayValue) + 1, "", NoItem)
    /\ UNCHANGED <<schemaVars, config, genVars, apiFormVars, parseVars, authVars, runVars, limitVars, dedupVars, pageVars>>

handleRemoveItem ==
    \E index \in 1..Len(arrayValue) :
        /\ arrayValue' = [j \in 1..(Len(arrayValue) - 1) |->
                            IF j < index THEN arrayValue[j] ELSE arrayValue[j + 1]]
        /\ lastChange' = Changed("remove", index, "", arrayValue[index])
        /\ UNCHANGED <<schemaVars, config, genVars, apiFormVars, parseVars, authVars, runVars, limitVars, dedupVars, pageVars>>

\* a field control of item index calls onChange, which calls handleItemChange
FieldChange ==
    \E index \in 1..Len(arrayValue) :
      LET item == arrayValue[index]
          shown == getFieldsForItem(config, item)
      IN \E n \in 1..Len(shown) : \E val \in ValuesOf(shown[n]) :
           LET fieldName == getFieldName(shown[n])
               typeChanged == /\ Has(config, "discriminator")
                              /\ fieldName = config.discriminator.propertyName
                              /\ (~Has(item, fieldName) \/ item[fieldName] # val)
           IN /\ arrayValue' = [arrayValue EXCEPT
                                  ![index] = ItemAfterChange(config, item, fieldName, val)]
              /\ lastChange' = Changed(IF typeChanged THEN "discriminator" ELSE "edit",
                                       index, val, item)
              /\ UNCHANGED <<schemaVars, config, genVars, apiFormVars, parseVars, authVars, runVars, limitVars, dedupVars, pageVars>>

NextForm == handleAddItem \/ handleRemoveItem \/ FieldChange

SpecForm == InitForm /\ [][NextForm]_vars

\* C7: for an item whose discriminator holds a value V registered in
\* discriminator.variants, the fields exposed for it, minus the
\* discriminator field, are exactly the field list registered for V.
C7_ExposedFieldsOfVariant ==
    \A i \in 1..Len(arrayValue) :
       LET pn == config.discriminator.propertyName
       IN (Has(arrayValue[i], pn) /\ arrayValue[i][pn] \in DOMAIN config.discriminator.variants)
          => SelectSeq(getFieldsForItem(config, arrayValue[i]),
                       LAMBDA f : getFieldName(f) # pn)
             = config.discriminator.variants[arrayValue[i][pn]]

\* C7 witness: an item with the type image selected, in a form that also
\* registers another variant.
C7_Witness ==
    /\ Len(arrayValue) > 0
    /\ Has(arrayValue[1], "type") /\ arrayValue[1]["type"] = "image"
    /\ Cardinality(DOMAIN config.discriminator.variants) = 2
    /\ Len(getFieldsForItem(config, arrayValue[1])) = 3

\* C8: after the discriminator of an item is changed to another value V',
\* the item holds V' under the discriminator property and no key other than
\* the discriminator property and the fields registered for V'.
C8_DiscriminatorChangeDrops ==
    (lastChange.kind = "discriminator")
    => LET pn == config.discriminator.propertyName
           item == arrayValue[lastChange.index]
           registered == config.discriminator.variants[lastChange.value]
       IN /\ Has(item, pn) /\ item[pn] = lastChange.value
          /\ DOMAIN item \subseteq
               {pn} \cup {getFieldName(registered[j]) : j \in 1..Len(registered)}
          /\ \A k \in DOMAIN item \ {pn} :
               k \in DOMAIN lastChange.before /\ item[k] = lastChange.before[k]

\* C8 witness: image is selected on an item that held the type text and a
\* text value; the text value is gone.
C8_Witness ==
    /\ lastChange.kind = "discriminator"
    /\ lastChange.value = "image"
    /\ Has(lastChange.before, "type") /\ lastChange.before["type"] = "text"
    /\ Has(lastChange.before, "text")
    /\ ~Has(arrayValue[lastChange.index], "text")

(* ------------------------- JavaScript values -------------------------- *)
\* A JavaScript value is a record tagged by its kind. A string is the
\* sequence of its characters, where a run of letters or digits that no
\* step looks inside is written as one element; an object is the sequence
\* of its [k, v] entries in insertion order, each key once.
Undefined == [t |-> "undefined"]
Null == [t |-> "null"]
Str(cs) == [t |-> "string", s |-> cs]
Num(n) == [t |-> "number", n |-> n]
Bool(b) == [t |-> "boolean", b |-> b]
Arr(a) == [t |-> "array", a |-> a]
Obj(o) == [t |-> "object", o |-> o]
KV(k, v) == [k |-> k, v |-> v]
IsArr(v) == v.t = "array"
IsObj(v) == v.t = "object"
\* v === undefined || v === null || v === ''
IsEmptyValue(v) == v = Undefined \/ v = Null \/ v = Str(<<>>)
Truthy(v) ==
    CASE v.t = "undefined" -> FALSE
      [] v.t = "null" -> FALSE
      [] v.t = "string" -> v.s # <<>>
      [] v.t = "number" -> v.n # 0
      [] v.t = "boolean" -> v.b
      [] OTHER -> TRUE
\* a || b
Or(a, b) == IF Truthy(a) THEN a ELSE b
HasKey(obj, k) == \E i \in 1..Len(obj.o) : obj.o[i].k = k
\* obj[k], undefined for a missing key
Get(obj, k) ==
    IF obj.t = "object" /\ HasKey(obj, k)
    THEN obj.o[CHOOSE i \in 1..Len(obj.o) : obj.o[i].k = k].v
    ELSE Undefined
\* obj[k] = v
Set(obj, k, v) ==
    IF HasKey(obj, k)
    THEN Obj([i \in 1..Len(obj.o) |-> IF obj.o[i].k = k THEN KV(k, v) ELSE obj.o[i]])
    ELSE Obj(Append(obj.o, KV(k, v)))
\* Object.keys(v).length
KeyCount(v) ==
    CASE v.t = "object" -> Len(v.o)
      [] v.t = "array" -> Len(v.a)
      [] v.t = "string" -> Len(v.s)
      [] OTHER -> 0
\* an optional member of a record of the document: undefined when missing
Opt(r, f) == IF Has(r, f) THEN r[f] ELSE Undefined
\* the decimal text of the numbers the inputs hold
NumText(n) == IF n = 0 THEN "0" ELSE IF n = 7 THEN "7" ELSE "42"
RECURSIVE Join(_, _)
Join(parts, sep) ==
    IF parts = <<>> THEN <<>>
    ELSE IF Len(parts) = 1 THEN parts[1]
    ELSE parts[1] \o sep \o Join(Tail(parts), sep)
\* String(v)
RECURSIVE ToText(_)
ToText(v) ==
    CASE v.t = "string" -> v.s
      [] v.t = "number" -> <<NumText(v.n)>>
      [] v.t = "boolean" -> IF v.b THEN <<"true">> ELSE <<"false">>
      [] v.t = "undefined" -> <<"undefined">>
      [] v.t = "null" -> <<"null">>
      [] v.t = "array" -> Join([i \in 1..Len(v.a) |->
                                  IF v.a[i] = Undefined \/ v.a[i] = Null THEN <<>>
                                  ELSE ToText(v.a[i])], <<",">>)
      [] OTHER -> <<"[object Object]">>
\* encodeURIComponent, character by character
EncodeChar(c) ==
    CASE c = " " -> <<"%20">>
      [] c = "&" -> <<"%26">>
      [] c = "=" -> <<"%3D">>
      [] c = "?" -> <<"%3F">>
      [] c = "\"" -> <<"%22">>
      [] c = "\\" -> <<"%5C">>
      [] c = "\n" -> <<"%0A">>
      [] c = "," -> <<"%2C">>
      [] c = "{" -> <<"%7B">>
      [] c = "}" -> <<"%7D">>
      [] OTHER -> <<c>>
encodeURIComponent(cs) == Flatten([i \in 1..Len(cs) |-> EncodeChar(cs[i])])

(* ------------------------- generateCodeSamples ------------------------ *)
\* An operation is [method, path, parameters, content, hasAuth]: path is the
\* template as a character sequence in which a placeholder {name} is one
\* element; a parameter is [name, in, schema] with example where the
\* document gives one; content is the first media-type entry of the request
\* body, a record with example and schema where present, NoContent without a
\* request body. Examples and defaults are JavaScript values.
NoContent == [nil |-> TRUE]
Placeholder(name) == "{" \o name \o "}"
\* keys starting with "__"
InternalKeys == {"__typename"}

\* str.replace(token, text): the first occurrence only
ReplaceFirst(seq, token, text) ==
    IF Includes(seq, token)
    THEN LET i == CHOOSE i \in 1..Len(seq) :
                    seq[i] = token /\ \A j \in 1..(i - 1) : seq[j] # token
         IN SubSeq(seq, 1, i - 1) \o text \o SubSeq(seq, i + 1, Len(seq))
    ELSE seq

\* a plausible slip: example and default consulted before the form value
PathValueExampleFirst(param, fv) ==
    Or(Or(Or(Or(Opt(param.schema, "example"), Opt(param, "example")),
             Opt(param.schema, "default")), Get(fv, param.name)),
       Str(<<"example-id">>))

\* the value substituted for one path parameter
PathValue(param, fv) ==
    Or(Or(Or(Or(Get(fv, param.name), Opt(param.schema, "example")),
             Opt(param, "example")), Opt(param.schema, "default")),
       Str(<<"example-id">>))

\* fullPath after the first n parameters
RECURSIVE FullPath(_, _, _, _)
FullPath(path, params, n, fv) ==
    IF n = 0 THEN path
    ELSE IF params[n].in = "path"
    THEN ReplaceFirst(FullPath(path, params, n - 1, fv), Placeholder(params[n].name),
                      ToText(PathValue(params[n], fv)))
    ELSE FullPath(path, params, n - 1, fv)

\* the value resolved for one query parameter
QueryValue(param, fv) ==
    IF Get(fv, param.name) # Undefined THEN Get(fv, param.name)
    ELSE Or(Or(Opt(param.schema, "example"), Opt(param, "example")),
            Opt(param.schema, "default"))

\* a plausible slip: the test for the empty string left out
QueryParamsKeepEmpty(params, n, fv) ==
    LET kept == SelectSeq(SubSeq(params, 1, n),
                          LAMBDA p : p.in = "query" /\ QueryValue(p, fv) # Undefined)
    IN Obj([i \in 1..Len(kept) |-> KV(kept[i].name, QueryValue(kept[i], fv))])

\* queryParams after the first n parameters
RECURSIVE QueryParams(_, _, _)
QueryParams(params, n, fv) ==
    IF n = 0 THEN Obj(<<>>)
    ELSE LET value == QueryValue(params[n], fv)
         IN IF params[n].in = "query" /\ value # Undefined /\ value # Str(<<>>)
            THEN Set(QueryParams(params, n - 1, fv), params[n].name, value)
            ELSE QueryParams(params, n - 1, fv)

\* Object.values(item) of an object or an array
ValuesIn(item) ==
    IF IsObj(item) THEN [i \in 1..Len(item.o) |-> item.o[i].v] ELSE item.a
SomeNonEmpty(item) == \E i \in 1..Len(ValuesIn(item)) : ~IsEmptyValue(ValuesIn(item)[i])

\* what the loop over the form values stores for one entry: the entry kept
\* (possibly filtered), or nothing
BodyEntry(e) ==
    IF e.k \in InternalKeys \/ IsEmptyValue(e.v) THEN <<>>
    ELSE IF IsArr(e.v)
    THEN LET filteredArray ==
                 SelectSeq(e.v.a, LAMBDA item :
                     IF IsObj(item) \/ IsArr(item) THEN SomeNonEmpty(item)
                     ELSE ~IsEmptyValue(item))
         IN IF Len(filteredArray) > 0 THEN <<KV(e.k, Arr(filteredArray))>> ELSE <<>>
    ELSE IF IsObj(e.v)
    THEN LET filteredObj == SelectSeq(e.v.o, LAMBDA m : ~IsEmptyValue(m.v))
         IN IF Len(filteredObj) > 0 THEN <<KV(e.k, Obj(filteredObj))>> ELSE <<>>
    ELSE <<e>>

\* the body built from the form values
BodyFromForm(fv) == Obj(Flatten([i \in 1..Len(fv.o) |-> BodyEntry(fv.o[i])]))

\* a plausible slip: the type consulted before the format
getDefaultValueTypeFirst(type, format) ==
    CASE type = "string" -> Str(<<"string">>)
      [] type \in {"integer", "number"} -> Num(0)
      [] type = "boolean" -> Bool(FALSE)
      [] type = "array" -> Arr(<<>>)
      [] type = "object" -> Obj(<<>>)
      [] format = "email" -> Str(<<"user@example.com">>)
      [] format = "password" -> Str(<<"password">>)
      [] format = "uuid" -> Str(<<"123e4567-e89b-12d3-a456-426614174000">>)
      [] format = "date-time" -> Str(<<"2024-01-01T00:00:00Z">>)
      [] OTHER -> Str(<<"value">>)

getDefaultValue(type, format) ==
    CASE format = "email" -> Str(<<"user@example.com">>)
      [] format = "password" -> Str(<<"password">>)
      [] format = "uuid" -> Str(<<"123e4567-e89b-12d3-a456-426614174000">>)
      [] format = "date-time" -> Str(<<"2024-01-01T00:00:00Z">>)
      [] OTHER ->
         CASE type = "string" -> Str(<<"string">>)
           [] type \in {"integer", "number"} -> Num(0)
           [] type = "boolean" -> Bool(FALSE)
           [] type = "array" -> Arr(<<>>)
           [] type = "object" -> Obj(<<>>)
           [] OTHER -> Str(<<"value">>)

\* a property schema with its anyOf resolved as the fallback resolves it:
\* the first variant with a type other than null replaces it
FallbackSchema(prop) ==
    IF Has(prop, "anyOf")
       /\ \E i \in 1..Len(prop.anyOf) : TypeOf(prop.anyOf[i]) \notin {"null", "undefined"}
    THEN prop.anyOf[CHOOSE i \in 1..Len(prop.anyOf) :
                      /\ TypeOf(prop.anyOf[i]) \notin {"null", "undefined"}
                      /\ \A j \in 1..(i - 1) :
                            TypeOf(prop.anyOf[j]) \in {"null", "undefined"}]
    ELSE prop
FallbackValue(s) ==
    Or(Or(Opt(s, "example"), Opt(s, "default")), getDefaultValue(TypeOf(s), FormatOf(s)))

\* the body synthesized from the schema's properties
SynthesizedBody(resolvedSchema) ==
    LET properties == IF Has(resolvedSchema, "properties") THEN resolvedSchema.properties
                      ELSE <<>>
        required == Req(resolvedSchema)
        included == SelectSeq(properties, LAMBDA p :
                       \/ Includes(required, p.name)
                       \/ Has(FallbackSchema(p.schema), "example")
                       \/ Has(FallbackSchema(p.schema), "default"))
        first == [i \in 1..Len(included) |->
                    KV(included[i].name, FallbackValue(FallbackSchema(included[i].schema)))]
        named == SelectSeq(required, LAMBDA n : HasProp(resolvedSchema, n))
        second == [i \in 1..Len(named) |->
                     KV(named[i], FallbackValue(FallbackSchema(Prop(resolvedSchema, named[i]))))]
    IN IF Len(first) = 0 /\ Len(required) > 0 THEN Obj(second) ELSE Obj(first)

\* the body taken from the examples, or synthesized
FallbackBody(jsonContent) ==
    LET resolvedSchema == IF Has(jsonContent, "schema") THEN jsonContent.schema
                          ELSE NoSchema
        example == Or(Or(Opt(jsonContent, "example"), Opt(resolvedSchema, "example")),
                      Obj(<<>>))
    IN IF KeyCount(example) = 0 THEN SynthesizedBody(resolvedSchema) ELSE example

\* a plausible slip: the cleanup looks at the top level only
cleanEmptyArraysShallow(obj) ==
    IF IsArr(obj) THEN IF Len(obj.a) = 0 THEN Undefined ELSE obj
    ELSE IF IsObj(obj)
    THEN LET cleaned == SelectSeq(obj.o, LAMBDA m : ~(IsArr(m.v) /\ Len(m.v.a) = 0))
         IN IF Len(cleaned) > 0 THEN Obj(cleaned) ELSE Undefined
    ELSE obj

RECURSIVE cleanEmptyArrays(_)
cleanEmptyArrays(obj) ==
    IF IsArr(obj)
    THEN IF Len(obj.a) = 0 THEN Undefined
         ELSE LET mapped == [i \in 1..Len(obj.a) |-> cleanEmptyArrays(obj.a[i])]
                  filtered == SelectSeq(mapped, LAMBDA item :
                                 IF item = Undefined THEN FALSE
                                 ELSE IF IsObj(item) THEN SomeNonEmpty(item)
                                 ELSE ~IsEmptyValue(item))
              IN IF Len(filtered) > 0 THEN Arr(filtered) ELSE Undefined
    ELSE IF IsObj(obj)
    THEN LET mapped == [i \in 1..Len(obj.o) |-> KV(obj.o[i].k, cleanEmptyArrays(obj.o[i].v))]
             cleaned == SelectSeq(mapped, LAMBDA m : m.v # Undefined)
         IN IF Len(cleaned) > 0 THEN Obj(cleaned) ELSE Undefined
    ELSE obj

\* requestBody as the renderers receive it; null without a request body
RequestBody(content, fv) ==
    IF content = NoContent THEN Null
    ELSE LET fromForm == IF fv # Undefined /\ KeyCount(fv) > 0 THEN BodyFromForm(fv)
                         ELSE Null
             body == IF ~Truthy(fromForm) \/ KeyCount(fromForm) = 0
                     THEN FallbackBody(content) ELSE fromForm
             cleaned == cleanEmptyArrays(body)
         IN IF ~Truthy(body) THEN body
            ELSE IF IsObj(cleaned) THEN cleaned ELSE Obj(<<>>)

(* ----------------------------- renderers ------------------------------ *)
\* JSON.stringify of one character of a string
EscapeChar(c) ==
    CASE c = "\"" -> <<"\\", "\"">>
      [] c = "\\" -> <<"\\", "\\">>
      [] c = "\n" -> <<"\\", "n">>
      [] OTHER -> <<c>>
\* JSON.stringify(v) without indentation, as a character sequence
RECURSIVE JSONStringify(_)
JSONStringify(v) ==
    CASE v.t = "string" ->
           <<"\"">> \o Flatten([i \in 1..Len(v.s) |-> EscapeChar(v.s[i])]) \o <<"\"">>
      [] v.t = "number" -> <<NumText(v.n)>>
      [] v.t = "boolean" -> IF v.b THEN <<"true">> ELSE <<"false">>
      [] v.t = "array" ->
           <<"[">> \o Join([i \in 1..Len(v.a) |->
                              IF v.a[i] = Undefined THEN <<"null">>
                              ELSE JSONStringify(v.a[i])], <<",">>) \o <<"]">>
      [] v.t = "object" ->
           LET members == SelectSeq(v.o, LAMBDA m : m.v # Undefined)
           IN <<"{">> \o Join([i \in 1..Len(members) |->
                                 <<"\"", members[i].k, "\"", ":">>
                                 \o JSONStringify(members[i].v)], <<",">>) \o <<"}">>
      [] v.t = "null" -> <<"null">>
      [] OTHER -> <<>>

\* a plausible slip: the items of an array joined into one pair
QueryPartsJoined(queryParams) ==
    [i \in 1..Len(queryParams.o) |->
        <<queryParams.o[i].k, "=">> \o encodeURIComponent(ToText(queryParams.o[i].v))]

\* queryParts of generateCurlCode and generateJavaScriptCode
QueryParts(queryParams) ==
    Flatten([i \in 1..Len(queryParams.o) |->
               LET k == queryParams.o[i].k
                   v == queryParams.o[i].v
               IN IF IsArr(v)
                  THEN [j \in 1..Len(v.a) |-> <<k, "=">> \o encodeURIComponent(ToText(v.a[j]))]
                  ELSE << <<k, "=">> \o encodeURIComponent(ToText(v)) >>])

\* the query string appended to the URL, empty when there is none
QueryString(queryParams) ==
    IF KeyCount(queryParams) > 0 /\ Len(QueryParts(queryParams)) > 0
    THEN <<"?">> \o Join(QueryParts(queryParams), <<"&">>)
    ELSE <<>>

BaseUrl == <<"https://", "api.example.com">>
Continuation == <<" ", "\\", "\n">>
HasBody(requestBody) == Truthy(requestBody) /\ KeyCount(requestBody) > 0

toUpperCase(method) ==
    CASE method = "post" -> "POST"
      [] method = "get" -> "GET"
      [] method = "delete" -> "DELETE"
      [] OTHER -> method

generateCurlCode(method, path, baseUrl, queryParams, requestBody, hasAuth) ==
    LET head == <<"curl", " ", "-X", " ", toUpperCase(method)>> \o Continuation
                \o <<" ", " ", "'">> \o baseUrl \o path \o QueryString(queryParams)
                \o <<"'">> \o Continuation
        body == IF HasBody(requestBody)
                THEN <<" ", " ", "-H", " ", "'", "Content-Type:", " ", "application/json", "'">>
                     \o Continuation
                     \o <<" ", " ", "-d", " ", "'">> \o JSONStringify(requestBody) \o <<"'">>
                     \o Continuation
                ELSE <<>>
        code == head \o body
    IN IF hasAuth
       THEN code \o <<" ", " ", "-H", " ", "'", "Authorization:", " ", "YOUR_API_KEY", "'">>
       ELSE IF ~HasBody(requestBody) THEN SubSeq(code, 1, Len(code) - 3)
       ELSE code

\* the samples of one call: the resolved path, query and body the three
\* renderers share, the dictionaries the Python and JavaScript samples
\* declare, the query string of the JavaScript and cURL samples, and the
\* text of the cURL sample
CodeSamples(oper, fv) ==
    LET fullPath == FullPath(oper.path, oper.parameters, Len(oper.parameters), fv)
        queryParams == QueryParams(oper.parameters, Len(oper.parameters), fv)
        requestBody == RequestBody(oper.content, fv)
    IN [fullPath |-> fullPath,
        queryParams |-> queryParams,
        requestBody |-> requestBody,
        pythonParams |-> IF KeyCount(queryParams) > 0 THEN queryParams ELSE Undefined,
        pythonPayload |-> IF HasBody(requestBody) THEN requestBody ELSE Undefined,
        jsParams |-> IF KeyCount(queryParams) > 0 THEN queryParams ELSE Undefined,
        jsQuery |-> QueryString(queryParams),
        curlQuery |-> QueryString(queryParams),
        curl |-> generateCurlCode(oper.method, fullPath, BaseUrl, queryParams,
                                  requestBody, oper.hasAuth)]

(* ------------------- operations and form values drawn ----------------- *)
S(cs) == Str(<<cs>>)
PathTemplate == <<"/", "items", "/", Placeholder("id")>>
IdParam(s) == [name |-> "id", in |-> "path", schema |-> s]
\* the sources a path parameter can draw on, in every combination that
\* tells the order of precedence apart
PathParamInputs ==
    { IdParam(StrS),
      Ext(IdParam([type |-> "string", example |-> S("se"), default |-> S("sd")]),
          "example", S("pe")),
      Ext(IdParam([type |-> "string", default |-> S("sd")]), "example", S("pe")),
      IdParam([type |-> "string", default |-> S("sd")]),
      IdParam([type |-> "string", example |-> S("se")]),
      IdParam([type |-> "integer", example |-> Num(0), default |-> Num(7)]) }

QParam(n, s) == [name |-> n, in |-> "query", schema |-> s]
ArrOfStr == [type |-> "array", items |-> StrS]
QueryParamInputs ==
    { <<>>,
      <<QParam("tags", ArrOfStr), QParam("q", StrS)>>,
      <<QParam("q", StrS), QParam("tags", ArrOfStr)>>,
      <<QParam("tags", Ext(ArrOfStr, "default", Arr(<<>>))),
        QParam("q", [type |-> "string", default |-> Str(<<>>)])>>,
      <<QParam("tags", Ext(ArrOfStr, "example", Arr(<<S("a"), S("b")>>))),
        Ext(QParam("q", StrS), "example", Str(<<"x", " ", "y">>))>>,
      <<QParam("q", [type |-> "string", example |-> S("se"), default |-> S("sd")]),
        QParam("limit", [type |-> "integer", default |-> Num(7)])>> }

\* property schemas of a request body, one for every way the fallback
\* finds or makes up a value
BodyPropertyPool ==
    { StrS,
      [type |-> "string", example |-> S("ex")],
      [type |-> "string", example |-> S("ex"), default |-> S("df")],
      [type |-> "integer", default |-> Num(7)],
      [type |-> "integer", example |-> Num(0), default |-> Num(7)],
      [type |-> "integer"],
      [type |-> "boolean"],
      [type |-> "array"],
      [type |-> "array", default |-> Arr(<<S("a")>>)],
      [type |-> "object"],
      [type |-> "string", format |-> "email"],
      [type |-> "string", format |-> "password"],
      [type |-> "string", format |-> "uuid"],
      [type |-> "string", format |-> "date-time"],
      [format |-> "date"],
      [anyOf |-> <<NullS, [type |-> "integer", default |-> Num(7)]>>],
      [anyOf |-> <<NullS>>, example |-> S("ex")] }

BodySchemaInputs ==
    LET props == {<<P("name", s)>> : s \in BodyPropertyPool}
                 \cup {<<P("name", s), P("note", [type |-> "string", default |-> S("df")])>> :
                         s \in {StrS, [type |-> "array"], [type |-> "integer"]}}
    IN {[type |-> "object", properties |-> ps] : ps \in props}
       \cup {[type |-> "object", properties |-> ps, required |-> <<"name">>] : ps \in props}
       \cup {[type |-> "object", properties |-> <<P("name", StrS)>>, required |-> <<"gone">>]}

ExampleInputs ==
    { Obj(<<KV("name", S("ex"))>>),
      Obj(<<KV("name", S("ex")), KV("tags", Arr(<<>>))>>),
      Obj(<<KV("tags", Arr(<<>>))>>),
      Obj(<<KV("meta", Obj(<<KV("list", Arr(<<Arr(<<>>), Arr(<<Str(<<>>)>>)>>)),
                             KV("n", Num(0))>>))>>),
      Arr(<<S("a")>>),
      Num(7) }

NameSchema == [type |-> "object", properties |-> <<P("name", StrS)>>, required |-> <<"name">>]
ContentInputs ==
    {NoContent, [description |-> "body"]}
    \cup {[schema |-> s] : s \in BodySchemaInputs}
    \cup {[example |-> e] : e \in ExampleInputs}
    \cup {[example |-> e, schema |-> NameSchema] : e \in ExampleInputs}
    \cup {[schema |-> Ext(NameSchema, "example", e)] : e \in ExampleInputs}
    \cup {[example |-> Obj(<<KV("name", S("ce"))>>),
           schema |-> Ext(NameSchema, "example", Obj(<<KV("name", S("se"))>>))]}

Operation(method, pathParam, queryParams, content, hasAuth) ==
    [method |-> method, path |-> PathTemplate, parameters |-> <<pathParam>> \o queryParams,
     content |-> content, hasAuth |-> hasAuth]
PlainQuery == <<QParam("tags", ArrOfStr), QParam("q", StrS)>>
GenOperations ==
    {Operation("get", p, PlainQuery, NoContent, FALSE) : p \in PathParamInputs}
    \cup {Operation("get", IdParam(StrS), q, NoContent, a) :
            q \in QueryParamInputs, a \in BOOLEAN}
    \cup {Operation("post", IdParam(StrS), <<>>, c, FALSE) : c \in ContentInputs}
    \cup {Operation("post", IdParam(StrS), PlainQuery, [schema |-> NameSchema], TRUE)}

\* entries a form value map is made of
FormEntryPool ==
    { KV("id", S("abc")), KV("id", Num(0)), KV("id", Str(<<>>)),
      KV("tags", Arr(<<>>)), KV("tags", Arr(<<S("a"), S("b")>>)),
      KV("tags", Arr(<<Str(<<"a", "&", "b">>), S("a")>>)),
      KV("q", Str(<<>>)), KV("q", Null), KV("q", Str(<<"x", " ", "y">>)),
      KV("name", S("nm")), KV("name", Str(<<>>)), KV("name", Num(7)),
      KV("items", Arr(<<Obj(<<>>), Str(<<>>), Obj(<<KV("a", Str(<<>>))>>)>>)),
      KV("items", Arr(<<Obj(<<KV("a", S("v")), KV("list", Arr(<<>>))>>)>>)),
      KV("meta", Obj(<<KV("list", Arr(<<Arr(<<>>), Arr(<<Null>>)>>)), KV("e", Str(<<>>))>>)),
      KV("meta", Obj(<<KV("deep", Obj(<<KV("list", Arr(<<>>))>>)), KV("n", Num(0))>>)),
      KV("__typename", S("T")) }
DistinctKeys(es) == \A i, j \in 1..Len(es) : i # j => es[i].k # es[j].k
FormValueInputs ==
    {Undefined} \cup {Obj(es) : es \in {l \in SeqsUpTo(FormEntryPool, MaxEntries) :
                                          DistinctKeys(l)}}

(* ---------------- specification of the code sample generator --------- *)
InitGen ==
    /\ schema = NoSchema
    /\ op = "generate"
    /\ normalized = NoSchema
    /\ fields = <<>>
    /\ kind = ""
    /\ parameters = <<>>
    /\ config = NoConfig
    /\ arrayValue = <<>>
    /\ lastChange = NoChange
    /\ operation \in GenOperations
    /\ formValues = Undefined
    /\ samples = NoSamples
    /\ formFields = <<>>
    /\ formData = NoFormValues
    /\ userModifiedFields = {}
    /\ selectedExample = NoExample
    /\ urlFieldName = ""
    /\ parsedValues = NoParsed
    /\ openapi = NoDocument
    /\ uiUrlField = NoUrlField
    /\ urlValue = NoUrlValue
    /\ submitted = NoRequest
    /\ now = 0
    /\ requestStore = NoStore
    /\ answers = <<>>
    /\ handlers = <<>>
    /\ deduplicationStore = {}
    /\ currentEndpointKeyRef = ""
    /\ abortControllerRef = 0
    /\ apiResponse = NoOutcome
    /\ error = NoOutcome
    /\ isLoading = FALSE
    /\ requests = <<>>

\* one call of generateCodeSamples with the form values the form reports
generateCodeSamples ==
    /\ samples = NoSamples
    /\ \E fv \in FormValueInputs :
          /\ formValues' = fv
          /\ samples' = CodeSamples(operation, fv)
    /\ UNCHANGED <<schemaVars, formVars, operation, apiFormVars, parseVars, authVars, runVars, limitVars, dedupVars, pageVars>>

NextGen == generateCodeSamples

SpecGen == InitGen /\ [][NextGen]_vars

(* ------------------- claims on the code sample generator -------------- *)
Generated == samples # NoSamples
PathParam == operation.parameters[1]
QueryParamsOf(oper) == SelectSeq(oper.parameters, LAMBDA p : p.in = "query")
\* the first value of a list that satisfies a test, undefined when none does
RECURSIVE FirstThat(_, _)
FirstThat(Test(_), vs) ==
    IF vs = <<>> THEN Undefined
    ELSE IF Test(Head(vs)) THEN Head(vs) ELSE FirstThat(Test, Tail(vs))
IsDefined(v) == v # Undefined
IsPresent(v) == ~IsEmptyValue(v)
Substituted(value) == <<"/", "items", "/">> \o ToText(value)

\* C12 as stated: the placeholder {name} is replaced by the first defined
\* value among the form value, the schema example, the schema default and
\* a literal placeholder string, and a form value that is present wins.
C12_PathPrecedence ==
    Generated
    => samples.fullPath =
         Substituted(
           IF IsPresent(Get(formValues, PathParam.name)) THEN Get(formValues, PathParam.name)
           ELSE FirstThat(IsDefined, <<Opt(PathParam.schema, "example"),
                                       Opt(PathParam.schema, "default"),
                                       Str(<<"example-id">>)>>))

\* C12 (amended): the placeholder {name} is replaced by the first truthy
\* value (neither undefined, null, "", 0 nor false) among the form value,
\* the schema example, the example of the parameter itself, the schema
\* default and the literal example-id; a truthy form value always wins.
C12_PathPrecedenceTruthy ==
    Generated
    => /\ samples.fullPath =
            Substituted(FirstThat(Truthy, <<Get(formValues, PathParam.name),
                                            Opt(PathParam.schema, "example"),
                                            Opt(PathParam, "example"),
                                            Opt(PathParam.schema, "default"),
                                            Str(<<"example-id">>)>>))
       /\ Truthy(Get(formValues, PathParam.name))
          => samples.fullPath = Substituted(Get(formValues, PathParam.name))

\* C12 witness: a form value substituted although the parameter has a
\* schema example, an example of its own and a default.
C12_Witness ==
    /\ Generated
    /\ Has(PathParam.schema, "example") /\ Has(PathParam, "example")
    /\ Has(PathParam.schema, "default")
    /\ Get(formValues, "id") = Str(<<"abc">>)
    /\ samples.fullPath = <<"/", "items", "/", "abc">>

\* the value a query parameter resolves to: the form value, else the
\* first truthy of the examples and the default
Resolved(p) ==
    IF IsDefined(Get(formValues, p.name)) THEN Get(formValues, p.name)
    ELSE FirstThat(Truthy, <<Opt(p.schema, "example"), Opt(p, "example"),
                             Opt(p.schema, "default")>>)
\* the pair key=... occurs in a query string
InQuery(text, k) ==
    \E i \in 2..(Len(text) - 1) : text[i - 1] \in {"?", "&"} /\ text[i] = k /\ text[i + 1] = "="
InDict(d, k) == d # Undefined /\ HasKey(d, k)
OmittedEverywhere(k) ==
    /\ ~InQuery(samples.curlQuery, k) /\ ~InQuery(samples.jsQuery, k)
    /\ ~InQuery(samples.curl, k)
    /\ ~InDict(samples.pythonParams, k) /\ ~InDict(samples.jsParams, k)

PairRun(k, items) ==
    Join([j \in 1..Len(items) |-> <<k, "=">> \o encodeURIComponent(ToText(items[j]))], <<"&">>)
\* the places where a pair of key k starts
PairStarts(text, k) ==
    {i \in 2..(Len(text) - 1) : text[i - 1] \in {"?", "&"} /\ text[i] = k /\ text[i + 1] = "="}
Min(ns) == CHOOSE n \in ns : \A m \in ns : n <= m
IsRendered(p) == Resolved(p) \notin {Undefined, Str(<<>>), Arr(<<>>)}
QueryOrdered(text) ==
    /\ \A i \in 1..Len(QueryParamsOf(operation)) :
          LET p == QueryParamsOf(operation)[i]
          IN (IsRendered(p) /\ IsArr(Resolved(p)))
             => /\ Cardinality(PairStarts(text, p.name)) = Len(Resolved(p).a)
                /\ LET s == Min(PairStarts(text, p.name))
                       run == PairRun(p.name, Resolved(p).a)
                   IN /\ SubSeq(text, s, s + Len(run) - 1) = run
                      /\ (s + Len(run) <= Len(text)) => text[s + Len(run)] = "&"
    /\ \A i, j \in 1..Len(QueryParamsOf(operation)) :
          LET p == QueryParamsOf(operation)[i]
              q == QueryParamsOf(operation)[j]
          IN (i < j /\ IsRendered(p) /\ IsRendered(q))
             => Min(PairStarts(text, p.name)) < Min(PairStarts(text, q.name))

\* C14: an array-valued query parameter key with values v1..vn is rendered
\* as the n adjacent pairs key=v1&...&key=vn (values percent-encoded) in
\* list order, and different parameters follow the order of the operation's
\* parameter list, in the cURL and in the JavaScript query string.
C14_ArrayQueryPairs ==
    Generated => QueryOrdered(samples.curlQuery) /\ QueryOrdered(samples.jsQuery)

\* C14 witness: two parameters, the array-valued one second in the list.
C14_Witness ==
    /\ Generated
    /\ Len(operation.parameters) = 3
    /\ operation.parameters[2].name = "q" /\ operation.parameters[3].name = "tags"
    /\ Get(formValues, "tags") = Arr(<<Str(<<"a", "&", "b">>), Str(<<"a">>)>>)
    /\ samples.curlQuery = <<"?", "q", "=", "x", "%20", "y", "&",
                             "tags", "=", "a", "%26", "b", "&", "tags", "=", "a">>

RECURSIVE HoldsEmptyArray(_)
HoldsEmptyArray(v) ==
    CASE v.t = "array" -> Len(v.a) = 0 \/ \E i \in 1..Len(v.a) : HoldsEmptyArray(v.a[i])
      [] v.t = "object" -> \E i \in 1..Len(v.o) : HoldsEmptyArray(v.o[i].v)
      [] OTHER -> FALSE
\* an array all of whose items are empty: undefined, null, "", or an
\* object without a non-empty value
RECURSIVE HoldsArrayOfEmpties(_)
HoldsArrayOfEmpties(v) ==
    CASE v.t = "array" ->
           \/ \A i \in 1..Len(v.a) :
                 IsEmptyValue(v.a[i])
                 \/ (IsObj(v.a[i]) /\ \A j \in 1..Len(v.a[i].o) : IsEmptyValue(v.a[i].o[j].v))
           \/ \E i \in 1..Len(v.a) : HoldsArrayOfEmpties(v.a[i])
      [] v.t = "object" -> \E i \in 1..Len(v.o) : HoldsArrayOfEmpties(v.o[i].v)
      [] OTHER -> FALSE
EmptyBrackets(text) == \E i \in 1..(Len(text) - 1) : text[i] = "[" /\ text[i + 1] = "]"

\* C15: whatever the operation and the form values, the request body the
\* samples render holds no empty array, and no array of only empty items,
\* at any depth, whether built from form values or from the fallback.
C15_NoEmptyArray ==
    Generated
    => /\ ~HoldsEmptyArray(samples.requestBody)
       /\ ~HoldsArrayOfEmpties(samples.requestBody)
       /\ ~EmptyBrackets(samples.curl)

\* C15 witness: a form value with an empty list two levels down, rendered
\* without it.
C15_Witness ==
    /\ Generated
    /\ formValues = Obj(<<KV("meta", Obj(<<KV("deep", Obj(<<KV("list", Arr(<<>>))>>)),
                                           KV("n", Num(0))>>))>>)
    /\ samples.requestBody = Obj(<<KV("meta", Obj(<<KV("n", Num(0))>>))>>)

\* an entry of the form values that contributes to the body
IsUsableEntry(e) ==
    /\ e.k \notin InternalKeys
    /\ ~IsEmptyValue(e.v)
    /\ IsArr(e.v) => \E i \in 1..Len(e.v.a) :
                        IF IsObj(e.v.a[i]) \/ IsArr(e.v.a[i]) THEN SomeNonEmpty(e.v.a[i])
                        ELSE ~IsEmptyValue(e.v.a[i])
    /\ IsObj(e.v) => SomeNonEmpty(e.v)
NoUsableFormValues ==
    formValues = Undefined \/ \A i \in 1..Len(formValues.o) : ~IsUsableEntry(formValues.o[i])
FallsBack == Generated /\ operation.content # NoContent /\ NoUsableFormValues
BodySchema == IF Has(operation.content, "schema") THEN operation.content.schema ELSE NoSchema
BodyProperties == IF Has(BodySchema, "properties") THEN BodySchema.properties ELSE <<>>
\* the placeholder keyed by format, then by type
PlaceholderFor(s) ==
    IF FormatOf(s) = "email" THEN Str(<<"user@example.com">>)
    ELSE IF FormatOf(s) = "password" THEN Str(<<"password">>)
    ELSE IF FormatOf(s) = "uuid" THEN Str(<<"123e4567-e89b-12d3-a456-426614174000">>)
    ELSE IF FormatOf(s) = "date-time" THEN Str(<<"2024-01-01T00:00:00Z">>)
    ELSE IF TypeOf(s) = "string" THEN Str(<<"string">>)
    ELSE IF TypeOf(s) \in {"integer", "number"} THEN Num(0)
    ELSE IF TypeOf(s) = "boolean" THEN Bool(FALSE)
    ELSE IF TypeOf(s) = "array" THEN Arr(<<>>)
    ELSE IF TypeOf(s) = "object" THEN Obj(<<>>)
    ELSE Str(<<"value">>)
EntriesOf(body) == {body.o[i] : i \in 1..Len(body.o)}
IsRequiredProperty(p) == Includes(Req(BodySchema), p.name)

\* C17 as stated: without usable form values the body is the explicit
\* content or schema example; without one it holds exactly the required
\* properties of the schema, each set to its own example, else its own
\* default, else the placeholder keyed by its format or type.
C17_FallbackFromRequired ==
    FallsBack
    => LET example == FirstThat(IsDefined, <<Opt(operation.content, "example"),
                                             Opt(BodySchema, "example")>>)
       IN IF IsDefined(example) THEN samples.requestBody = example
          ELSE EntriesOf(samples.requestBody) =
                 { KV(BodyProperties[i].name,
                      FirstThat(IsDefined,
                                <<Opt(FallbackSchema(BodyProperties[i].schema), "example"),
                                  Opt(FallbackSchema(BodyProperties[i].schema), "default"),
                                  PlaceholderFor(FallbackSchema(BodyProperties[i].schema))>>)) :
                     i \in {j \in 1..Len(BodyProperties) : IsRequiredProperty(BodyProperties[j])} }

\* what the final cleanup leaves of a body, and of one value
CleanedBody(v) == IF IsObj(cleanEmptyArrays(v)) THEN cleanEmptyArrays(v) ELSE Obj(<<>>)
\* the value the synthesis gives one property: the first truthy of its
\* example, its default and its placeholder, the placeholder when none is
SynthesizedValue(s) ==
    LET v == FirstThat(Truthy, <<Opt(s, "example"), Opt(s, "default")>>)
    IN IF IsDefined(v) THEN v ELSE PlaceholderFor(s)
IsSynthesized(p) ==
    \/ IsRequiredProperty(p)
    \/ Has(FallbackSchema(p.schema), "example")
    \/ Has(FallbackSchema(p.schema), "default")

\* C17 (amended): without usable form values the body is the first truthy
\* of the content example and the schema example, provided it has a key,
\* after the final cleanup (empty arrays and emptied objects stripped, {}
\* for an example that is not an object); otherwise it is synthesized from
\* the properties that are required or carry an example or a default, each
\* set to the first truthy of its example and its default, else to the
\* placeholder keyed by its format (email, password, uuid, date-time) or
\* else its type, and the cleanup then drops the [] and {} placeholders.
C17_FallbackAsBuilt ==
    FallsBack
    => LET example == FirstThat(Truthy, <<Opt(operation.content, "example"),
                                          Opt(BodySchema, "example")>>)
       IN IF IsDefined(example) /\ KeyCount(example) > 0
          THEN samples.requestBody = CleanedBody(example)
          ELSE EntriesOf(samples.requestBody) =
                 { KV(BodyProperties[i].name,
                      cleanEmptyArrays(SynthesizedValue(FallbackSchema(BodyProperties[i].schema)))) :
                     i \in {j \in 1..Len(BodyProperties) :
                              /\ IsSynthesized(BodyProperties[j])
                              /\ SynthesizedValue(FallbackSchema(BodyProperties[j].schema))
                                   \notin {Arr(<<>>), Obj(<<>>)}} }

\* C17 witness: no form values, no example; a required property of format
\* email and an optional one with a default are both synthesized.
C17_Witness ==
    /\ FallsBack
    /\ ~Has(operation.content, "example") /\ ~Has(BodySchema, "example")
    /\ samples.requestBody \in
         { Obj(<<KV("name", Str(<<"user@example.com">>))>>),
           Obj(<<KV("name", Str(<<"string">>)), KV("note", Str(<<"df">>))>>) }
    /\ Len(BodyProperties) = 2 \/ FormatOf(BodyProperties[1].schema) = "email"

(* ------------------------------- ApiForm ------------------------------ *)
\* The form holds formData (an object keyed by top-level field name), the
\* set userModifiedFields, and reports cleanData(formData) to the code
\* editor, which regenerates the samples from it. The fields are those
\* parseOpenAPIToConfig derives from the request body; the endpoint
\* configures no URL field, and no descriptor is nested.
TopName(field) == field.name[1]
\* field.defaultValue as a value: list descriptors carry the empty list
DefaultOf(field) ==
    IF field.type \in {"array", "array-object", "multi-select"} THEN Arr(<<>>)
    ELSE IF Has(field, "defaultValue") THEN field.defaultValue
    ELSE Undefined
\* findFieldConfig for a top-level path
HasFieldConfig(ffs, key) == \E i \in 1..Len(ffs) : ffs[i].name = <<key>>
FieldConfig(ffs, key) == ffs[CHOOSE i \in 1..Len(ffs) : ffs[i].name = <<key>>]

initialFormData(ffs) ==
    LET withDefault == SelectSeq(ffs, LAMBDA f : DefaultOf(f) # Undefined)
    IN Obj([i \in 1..Len(withDefault) |-> KV(TopName(withDefault[i]), DefaultOf(withDefault[i]))])

\* the effect that marks fields as user-modified after formData changed
MarkModified(ffs, data, modified) ==
    modified \cup
    { data.o[i].k : i \in { j \in 1..Len(data.o) :
          /\ HasFieldConfig(ffs, data.o[j].k)
          /\ ~IsEmptyValue(data.o[j].v)
          /\ \/ FieldConfig(ffs, data.o[j].k).required
             \/ JSONStringify(data.o[j].v)
                  # JSONStringify(DefaultOf(FieldConfig(ffs, data.o[j].k))) } }

\* a plausible slip: the set of user-modified fields is not consulted
valueMatchesDefaultUntracked(ffs, modified, key, value) ==
    /\ HasFieldConfig(ffs, key)
    /\ ~FieldConfig(ffs, key).required
    /\ DefaultOf(FieldConfig(ffs, key)) # Undefined
    /\ JSONStringify(value) = JSONStringify(DefaultOf(FieldConfig(ffs, key)))

valueMatchesDefault(ffs, modified, key, value) ==
    /\ HasFieldConfig(ffs, key)
    /\ ~FieldConfig(ffs, key).required
    /\ key \notin modified
    /\ DefaultOf(FieldConfig(ffs, key)) # Undefined
    /\ JSONStringify(value) = JSONStringify(DefaultOf(FieldConfig(ffs, key)))

\* cleanData below the top level, where no descriptor is found
RECURSIVE cleanNested(_)
cleanNested(obj) ==
    IF IsArr(obj)
    THEN IF Len(obj.a) = 0 THEN Undefined
         ELSE Arr([i \in 1..Len(obj.a) |-> cleanNested(obj.a[i])])
    ELSE IF IsObj(obj)
    THEN LET mapped == [i \in 1..Len(obj.o) |-> KV(obj.o[i].k, cleanNested(obj.o[i].v))]
             cleaned == SelectSeq(mapped, LAMBDA m : m.k \notin InternalKeys /\ m.v # Undefined)
         IN IF Len(cleaned) = 0 THEN Undefined ELSE Obj(cleaned)
    ELSE obj

\* cleanData(data) for the top-level object
cleanData(ffs, modified, data) ==
    LET mapped == [i \in 1..Len(data.o) |-> KV(data.o[i].k, cleanNested(data.o[i].v))]
        cleaned == SelectSeq(mapped, LAMBDA m :
                      /\ m.k \notin InternalKeys
                      /\ m.v # Undefined
                      /\ ~valueMatchesDefault(ffs, modified, m.k, m.v))
    IN IF Len(cleaned) = 0 THEN Undefined ELSE Obj(cleaned)

\* delete obj[k]
Delete(obj, k) == Obj(SelectSeq(obj.o, LAMBDA m : m.k # k))
\* formValues || {}
OrEmpty(v) == IF Truthy(v) THEN v ELSE Obj(<<>>)

\* endpoints the form is opened on
ApiBodySchema(required) ==
    [type |-> "object",
     properties |-> <<P("model", [type |-> "string", default |-> S("gpt")]),
                      P("mode", [type |-> "string", default |-> S("fast")]),
                      P("name", StrS),
                      P("tags", ArrOfStr)>>,
     required |-> required]
ApiOperations ==
    {Operation("post", IdParam(StrS), <<>>, [schema |-> ApiBodySchema(r)], FALSE) :
        r \in {<<>>, <<"mode", "name">>}}
    \cup {Operation("post", IdParam(StrS), <<>>,
                    [schema |-> ApiBodySchema(<<"mode", "name">>),
                     example |-> Obj(<<KV("name", S("ex"))>>)], FALSE)}
\* what the control of a field can hand to handleFieldChange
ChangesOf(field) ==
    IF field.type = "array" THEN {Arr(<<>>), Arr(<<S("a")>>)}
    ELSE {Undefined, Str(<<>>), S("x")}
         \cup (IF Has(field, "defaultValue") THEN {field.defaultValue} ELSE {})

(* ----------------------- specification of ApiForm --------------------- *)
InitApiForm ==
    /\ schema = NoSchema
    /\ op = "apiForm"
    /\ normalized = NoSchema
    /\ fields = <<>>
    /\ kind = ""
    /\ parameters = <<>>
    /\ config = NoConfig
    /\ arrayValue = <<>>
    /\ lastChange = NoChange
    /\ operation \in ApiOperations
    /\ formFields = RequestBodyFields(operation.content.schema)
    /\ formData = initialFormData(formFields)
    /\ userModifiedFields = {}
    /\ selectedExample = NoExample
    /\ urlFieldName = ""
    /\ parsedValues = NoParsed
    /\ formValues = cleanData(formFields, {}, formData)
    /\ samples = CodeSamples(operation, OrEmpty(formValues))
    /\ openapi = NoDocument
    /\ uiUrlField = NoUrlField
    /\ urlValue = NoUrlValue
    /\ submitted = NoRequest
    /\ now = 0
    /\ requestStore = NoStore
    /\ answers = <<>>
    /\ handlers = <<>>
    /\ deduplicationStore = {}
    /\ currentEndpointKeyRef = ""
    /\ abortControllerRef = 0
    /\ apiResponse = NoOutcome
    /\ error = NoOutcome
    /\ isLoading = FALSE
    /\ requests = <<>>

\* what follows every change of formData: the effect that marks modified
\* fields, the effect that reports the cleaned data, and the code editor
\* regenerating the samples
Rendered(data, modified) ==
    /\ formData' = data
    /\ userModifiedFields' = MarkModified(formFields, data, modified)
    /\ formValues' = cleanData(formFields, MarkModified(formFields, data, modified), data)
    /\ samples' = CodeSamples(operation, OrEmpty(formValues'))

handleFieldChange ==
    /\ \E i \in 1..Len(formFields) : \E value \in ChangesOf(formFields[i]) :
          Rendered(IF value = Undefined THEN Delete(formData, TopName(formFields[i]))
                   ELSE Set(formData, TopName(formFields[i]), value),
                   IF IsEmptyValue(value) THEN userModifiedFields
                   ELSE userModifiedFields \cup {TopName(formFields[i])})
    /\ UNCHANGED <<schemaVars, formVars, operation, formFields, parseVars, authVars, runVars, limitVars, dedupVars, pageVars>>

handleClear ==
    /\ Rendered(initialFormData(formFields), userModifiedFields)
    /\ UNCHANGED <<schemaVars, formVars, operation, formFields, parseVars, authVars, runVars, limitVars, dedupVars, pageVars>>

NextApiForm == handleFieldChange \/ handleClear

SpecApiForm == InitApiForm /\ [][NextApiForm]_vars

\* the value the form holds for a field, and what it means for the claim
CurrentValue(f) == Get(formData, TopName(f))
AtDefault(f) == DefaultOf(f) # Undefined /\ CurrentValue(f) = DefaultOf(f)
IsFilled(f) == ~IsEmptyValue(CurrentValue(f)) /\ CurrentValue(f) # Arr(<<>>)
FieldSet == {formFields[i] : i \in 1..Len(formFields)}
BodyKeys == {samples.requestBody.o[i].k : i \in 1..Len(samples.requestBody.o)}

\* C16 as stated: a key whose form value equals the schema default is
\* omitted from the body, and when keys with other values exist the body
\* holds exactly those.
C16_DefaultsOmitted ==
    (op = "apiForm")
    => /\ \A f \in FieldSet : AtDefault(f) => TopName(f) \notin BodyKeys
       /\ (\E f \in FieldSet : IsFilled(f) /\ ~AtDefault(f))
          => BodyKeys = {TopName(f) : f \in {g \in FieldSet : IsFilled(g) /\ ~AtDefault(g)}}

\* a filled field the cleaned form data keep
IsKept(f) ==
    /\ IsFilled(f)
    /\ ~AtDefault(f) \/ f.required \/ TopName(f) \in userModifiedFields

\* C16 (amended): a key whose form value equals the schema default is
\* omitted from the body unless its field is required or the user has set
\* it since the fields were loaded; the body holds exactly the filled keys
\* that differ from their default, are required or were set by the user,
\* with their form values. When no key is left, the body is the fallback
\* body of the example or the schema, in which schema defaults do appear.
C16_DefaultsOmittedUnlessKept ==
    (op = "apiForm")
    => IF \E f \in FieldSet : IsKept(f)
       THEN EntriesOf(samples.requestBody) =
              {KV(TopName(f), CurrentValue(f)) : f \in {g \in FieldSet : IsKept(g)}}
       ELSE samples.requestBody = RequestBody(operation.content, Undefined)

\* C16 witness: model and mode at their defaults and untouched, neither
\* required, name filled in: the body holds name alone.
C16_Witness ==
    /\ op = "apiForm"
    /\ Req(operation.content.schema) = <<>>
    /\ userModifiedFields = {"name"}
    /\ Get(formData, "model") = Str(<<"gpt">>) /\ Get(formData, "mode") = Str(<<"fast">>)
    /\ samples.requestBody = Obj(<<KV("name", Str(<<"x">>))>>)

(* --------------------------- example-parser --------------------------- *)
\* Code is a sequence of characters in which a run of characters no
\* pattern of the parser tells apart (a word, a host, a flag such as -d,
\* an escape such as %20) is one element; quotes, backslashes, white
\* space, braces, brackets, and the characters / ? & = : , . ( ) are
\* elements of their own, and a backslash is followed by a one-character
\* element.
IsSpace(c) == c \in {" ", "\n", "\t", "\r"}
\* the quotes of the patterns; the samples hold no backquote
IsQuote(c) == c \in {"'", "\""}
Max(ns) == CHOOSE n \in ns : \A m \in ns : m <= n
\* String.prototype.trim
Trim(t) ==
    LET inked == {i \in 1..Len(t) : ~IsSpace(t[i])}
    IN IF inked = {} THEN <<>> ELSE SubSeq(t, Min(inked), Max(inked))
RECURSIVE Concat(_)
Concat(t) == IF t = <<>> THEN "" ELSE Head(t) \o Concat(Tail(t))

\* code.match(/-d\s+([\s\S]+)/)[1].trim(); NoMatch when there is none
NoMatch == <<"<no match>">>
AfterDataFlag(code) ==
    LET at == {i \in 1..Len(code) - 2 : code[i] = "-d" /\ IsSpace(code[i + 1])}
    IN IF at = {} THEN NoMatch ELSE Trim(SubSeq(code, Min(at) + 1, Len(code)))

\* .replace(/\\\s*$/gm, ''): a backslash, the white space after it, up to
\* the last end of line that white space reaches
ContinuationEnds(t, i) ==
    {e \in i..Len(t) : /\ \A k \in (i + 1)..e : IsSpace(t[k])
                       /\ e = Len(t) \/ t[e + 1] = "\n"}
RECURSIVE StripContinuations(_, _)
StripContinuations(t, i) ==
    IF i > Len(t) THEN <<>>
    ELSE IF t[i] = "\\" /\ ContinuationEnds(t, i) # {}
    THEN StripContinuations(t, Max(ContinuationEnds(t, i)) + 1)
    ELSE <<t[i]>> \o StripContinuations(t, i + 1)

\* jsonContent.match(/^quote([\s\S]*?)quote\s*$/)[1]
Unquote(t) ==
    LET closing == {k \in 2..Len(t) : /\ IsQuote(t[k])
                                      /\ \A j \in (k + 1)..Len(t) : IsSpace(t[j])}
    IN IF Len(t) >= 2 /\ IsQuote(t[1]) /\ closing # {}
       THEN SubSeq(t, 2, Min(closing) - 1)
       ELSE t

\* .replace(/\\c/g, by) for one escaped character c
RECURSIVE ReplaceEscape(_, _, _)
ReplaceEscape(t, c, by) ==
    IF t = <<>> THEN <<>>
    ELSE IF Len(t) >= 2 /\ t[1] = "\\" /\ t[2] = c
    THEN <<by>> \o ReplaceEscape(SubSeq(t, 3, Len(t)), c, by)
    ELSE <<t[1]>> \o ReplaceEscape(Tail(t), c, by)
\* the clean-up of escaped characters before JSON.parse
CleanEscapes(t) ==
    ReplaceEscape(ReplaceEscape(ReplaceEscape(ReplaceEscape(ReplaceEscape(
        t, "'", "'"), "\"", "\""), "n", "\n"), "t", "\t"), "r", "\r")

\* JSON.parse on the character sequence
Failed == [ok |-> FALSE, v |-> Undefined, next |-> 0]
Parsed(v, next) == [ok |-> TRUE, v |-> v, next |-> next]
RECURSIVE Skip(_, _)
Skip(t, i) == IF i <= Len(t) /\ IsSpace(t[i]) THEN Skip(t, i + 1) ELSE i
JSONEscapes == {"\"", "\\", "/", "n", "t", "r"}
Unescaped(c) ==
    CASE c = "n" -> "\n"
      [] c = "t" -> "\t"
      [] c = "r" -> "\r"
      [] OTHER -> c
NumberTexts == {"0", "7", "42"}
NumOf(c) == IF c = "0" THEN 0 ELSE IF c = "7" THEN 7 ELSE 42
RECURSIVE ParseString(_, _, _)
ParseString(t, i, acc) ==
    IF i > Len(t) THEN Failed
    ELSE IF t[i] = "\"" THEN Parsed(Str(acc), i + 1)
    ELSE IF t[i] = "\\"
    THEN IF i < Len(t) /\ t[i + 1] \in JSONEscapes
         THEN ParseString(t, i + 2, Append(acc, Unescaped(t[i + 1])))
         ELSE Failed
    ELSE IF t[i] \in {"\n", "\t", "\r"} THEN Failed
    ELSE ParseString(t, i + 1, Append(acc, t[i]))
RECURSIVE ParseValue(_, _)
RECURSIVE ParseMembers(_, _, _)
RECURSIVE ParseElements(_, _, _)
ParseValue(t, from) ==
    LET i == Skip(t, from)
    IN IF i > Len(t) THEN Failed
       ELSE CASE t[i] = "\"" -> ParseString(t, i + 1, <<>>)
              [] t[i] = "{" ->
                   IF Skip(t, i + 1) <= Len(t) /\ t[Skip(t, i + 1)] = "}"
                   THEN Parsed(Obj(<<>>), Skip(t, i + 1) + 1)
                   ELSE ParseMembers(t, i + 1, Obj(<<>>))
              [] t[i] = "[" ->
                   IF Skip(t, i + 1) <= Len(t) /\ t[Skip(t, i + 1)] = "]"
                   THEN Parsed(Arr(<<>>), Skip(t, i + 1) + 1)
                   ELSE ParseElements(t, i + 1, <<>>)
              [] t[i] \in NumberTexts -> Parsed(Num(NumOf(t[i])), i + 1)
              [] t[i] = "true" -> Parsed(Bool(TRUE), i + 1)
              [] t[i] = "false" -> Parsed(Bool(FALSE), i + 1)
              [] t[i] = "null" -> Parsed(Null, i + 1)
              [] OTHER -> Failed
\* the members of an object from position from on, a member expected
ParseMembers(t, from, acc) ==
    LET i == Skip(t, from)
        key == IF i <= Len(t) /\ t[i] = "\"" THEN ParseString(t, i + 1, <<>>) ELSE Failed
        colon == Skip(t, key.next)
        val == IF key.ok /\ colon <= Len(t) /\ t[colon] = ":"
               THEN ParseValue(t, colon + 1) ELSE Failed
        after == Skip(t, val.next)
    IN IF ~val.ok \/ after > Len(t) THEN Failed
       ELSE IF t[after] = "}" THEN Parsed(Set(acc, Concat(key.v.s), val.v), after + 1)
       ELSE IF t[after] = "," THEN ParseMembers(t, after + 1, Set(acc, Concat(key.v.s), val.v))
       ELSE Failed
ParseElements(t, from, acc) ==
    LET val == ParseValue(t, from)
        after == Skip(t, val.next)
    IN IF ~val.ok \/ after > Len(t) THEN Failed
       ELSE IF t[after] = "]" THEN Parsed(Arr(Append(acc, val.v)), after + 1)
       ELSE IF t[after] = "," THEN ParseElements(t, after + 1, Append(acc, val.v))
       ELSE Failed
JSONParse(t) ==
    LET r == ParseValue(t, 1)
    IN IF r.ok /\ Skip(t, r.next) > Len(t) THEN r ELSE Failed

\* Object.assign(values, jsonBody) for the bodies the samples hold: an
\* object, or a number, boolean or null, which assign nothing
RECURSIVE Assign(_, _)
Assign(values, body) ==
    IF ~IsObj(body) \/ body.o = <<>> THEN values
    ELSE Assign(Set(values, body.o[1].k, body.o[1].v), Obj(Tail(body.o)))

\* jsonContent.match(/\{[\s\S]*\}/): from the first { to the last }
BraceMatch(t) ==
    LET opens == {i \in 1..Len(t) : t[i] = "{"}
        closes == {i \in 1..Len(t) : t[i] = "}"}
    IN IF opens # {} /\ closes # {} /\ Max(closes) > Min(opens)
       THEN SubSeq(t, Min(opens), Max(closes))
       ELSE NoMatch
\* .replace(/,\s*c/g, c) for a closing bracket c
RECURSIVE DropTrailingCommas(_, _)
DropTrailingCommas(t, c) ==
    IF t = <<>> THEN <<>>
    ELSE IF t[1] = "," /\ Skip(t, 2) <= Len(t) /\ t[Skip(t, 2)] = c
    THEN DropTrailingCommas(SubSeq(t, Skip(t, 2), Len(t)), c)
    ELSE <<t[1]>> \o DropTrailingCommas(Tail(t), c)


\* the outcome of a call an exception left; an exception a callee raises
\* and the caller does not catch leaves the caller too
Thrown == [t |-> "thrown"]
Propagate(outcome, Continue(_)) == IF outcome = Thrown THEN Thrown ELSE Continue(outcome)
\* the text parseCurlExample hands to JSON.parse
JsonContent(code) == CleanEscapes(Unquote(Trim(StripContinuations(AfterDataFlag(code), 1))))
RepairedJson(code) ==
    DropTrailingCommas(DropTrailingCommas(BraceMatch(JsonContent(code)), "}"), "]")
\* a plausible slip: the last JSON.parse stands outside any try
CurlBodyUncaught(code) ==
    LET flagged == AfterDataFlag(code)
        jsonContent == CleanEscapes(Unquote(Trim(StripContinuations(flagged, 1))))
        braces == BraceMatch(jsonContent)
        fixedJson == DropTrailingCommas(DropTrailingCommas(braces, "}"), "]")
    IN IF flagged = NoMatch THEN Obj(<<>>)
       ELSE IF JSONParse(jsonContent).ok THEN Assign(Obj(<<>>), JSONParse(jsonContent).v)
       ELSE IF braces = NoMatch THEN Obj(<<>>)
       ELSE IF JSONParse(braces).ok THEN Assign(Obj(<<>>), JSONParse(braces).v)
       ELSE IF JSONParse(fixedJson).ok THEN Assign(Obj(<<>>), JSONParse(fixedJson).v)
       ELSE Thrown

\* the body part of parseCurlExample: the values after the -d flag
CurlBody(code) ==
    LET flagged == AfterDataFlag(code)
        jsonContent == CleanEscapes(Unquote(Trim(StripContinuations(flagged, 1))))
        braces == BraceMatch(jsonContent)
        fixedJson == DropTrailingCommas(DropTrailingCommas(braces, "}"), "]")
    IN IF flagged = NoMatch THEN Obj(<<>>)
       ELSE IF JSONParse(jsonContent).ok THEN Assign(Obj(<<>>), JSONParse(jsonContent).v)
       ELSE IF braces = NoMatch THEN Obj(<<>>)
       ELSE IF JSONParse(braces).ok THEN Assign(Obj(<<>>), JSONParse(braces).v)
       ELSE IF JSONParse(fixedJson).ok THEN Assign(Obj(<<>>), JSONParse(fixedJson).v)
       ELSE Obj(<<>>)

\* decodeURIComponent with + read as a space, as URLSearchParams decodes
DecodeChar(c) ==
    CASE c = "%20" -> " "
      [] c = "+" -> " "
      [] c = "%26" -> "&"
      [] c = "%3D" -> "="
      [] c = "%3F" -> "?"
      [] c = "%22" -> "\""
      [] c = "%5C" -> "\\"
      [] c = "%0A" -> "\n"
      [] c = "%2C" -> ","
      [] c = "%7B" -> "{"
      [] c = "%7D" -> "}"
      [] OTHER -> c
Decode(t) == [i \in 1..Len(t) |-> DecodeChar(t[i])]
\* t.split(sep)
RECURSIVE Split(_, _)
Split(t, sep) ==
    LET at == {i \in 1..Len(t) : t[i] = sep}
    IN IF at = {} THEN <<t>>
       ELSE <<SubSeq(t, 1, Min(at) - 1)>> \o Split(SubSeq(t, Min(at) + 1, Len(t)), sep)
\* code.match(/\?([^\s'"]+)/)[1]
QueryMatch(code) ==
    LET plain(c) == ~IsSpace(c) /\ c \notin {"'", "\""}
        at == {i \in 1..Len(code) - 1 : code[i] = "?" /\ plain(code[i + 1])}
        stops == {j \in (Min(at) + 1)..Len(code) : ~plain(code[j])}
    IN IF at = {} THEN NoMatch
       ELSE SubSeq(code, Min(at) + 1, IF stops = {} THEN Len(code) ELSE Min(stops) - 1)
\* for (const [key, value] of new URLSearchParams(queryString).entries())
\*   values[key] = value
RECURSIVE AssignPairs(_, _)
AssignPairs(values, pairs) ==
    IF pairs = <<>> THEN values
    ELSE LET pair == Head(pairs)
             eq == {i \in 1..Len(pair) : pair[i] = "="}
             key == IF eq = {} THEN pair ELSE SubSeq(pair, 1, Min(eq) - 1)
             value == IF eq = {} THEN <<>> ELSE SubSeq(pair, Min(eq) + 1, Len(pair))
         IN IF pair = <<>> THEN AssignPairs(values, Tail(pairs))
            ELSE AssignPairs(Set(values, Concat(Decode(key)), Str(Decode(value))), Tail(pairs))

parseCurlExample(curlCode) ==
    Propagate(CurlBody(curlCode),
              LAMBDA values : IF QueryMatch(curlCode) = NoMatch THEN values
                              ELSE AssignPairs(values, Split(QueryMatch(curlCode), "&")))

\* In the samples of the client libraries a word (\w+) is one element.
IsWord(c) ==
    ~IsSpace(c) /\ ~IsQuote(c)
    /\ c \notin {".", "(", ")", "{", "}", "[", "]", ":", ",", "=", "/", "?", "&", "\\"}
\* the index after the text of a quoted string that opens at i, 0 when
\* t[i] opens none: ["']([^"']+)["']
QuotedEnd(t, i) ==
    LET quotes == {j \in (i + 1)..Len(t) : IsQuote(t[j])}
    IN IF i <= Len(t) /\ IsQuote(t[i]) /\ quotes # {} /\ Min(quotes) > i + 1
       THEN Min(quotes) + 1 ELSE 0
QuotedText(t, i) == SubSeq(t, i + 1, QuotedEnd(t, i) - 2)

\* code.match(/\.(?:create|update|new)\(([\s\S]*?)\)/)[1]
CallArgs(code) ==
    LET closings(i) == {j \in (i + 3)..Len(code) : code[j] = ")"}
        at == {i \in 1..Len(code) - 3 :
                 /\ code[i] = "." /\ code[i + 1] \in {"create", "update", "new"}
                 /\ code[i + 2] = "(" /\ closings(i) # {}}
    IN IF at = {} THEN NoMatch
       ELSE SubSeq(code, Min(at) + 3, Min(closings(Min(at))) - 1)

\* the matches of /["']?(\w+)["']?\s*sep\s*["']([^"']+)["']/g from i on,
\* the quotes around the key allowed or not, assigned in order
PairQuote(t, i, sep, quotedKeys) ==
    LET afterKey == IF quotedKeys /\ i < Len(t) /\ IsQuote(t[i + 1]) THEN i + 2 ELSE i + 1
        sepAt == Skip(t, afterKey)
    IN IF i <= Len(t) /\ IsWord(t[i]) /\ sepAt <= Len(t) /\ t[sepAt] = sep
          /\ QuotedEnd(t, Skip(t, sepAt + 1)) # 0
       THEN Skip(t, sepAt + 1) ELSE 0
RECURSIVE AssignMatches(_, _, _, _, _)
AssignMatches(values, t, i, sep, quotedKeys) ==
    IF i > Len(t) THEN values
    ELSE IF PairQuote(t, i, sep, quotedKeys) = 0
    THEN AssignMatches(values, t, i + 1, sep, quotedKeys)
    ELSE AssignMatches(Set(values, t[i], Str(QuotedText(t, PairQuote(t, i, sep, quotedKeys)))),
                       t, QuotedEnd(t, PairQuote(t, i, sep, quotedKeys)), sep, quotedKeys)

\* The samples of the client libraries pass words and quoted strings only:
\* no list and no nested dictionary, so the patterns for those match nothing.
parsePythonExample(pythonCode) ==
    IF CallArgs(pythonCode) = NoMatch THEN Obj(<<>>)
    ELSE AssignMatches(Obj(<<>>), CallArgs(pythonCode), 1, "=", FALSE)

\* objectPattern: the first { of the arguments up to the } that closes it
ObjectContent(args) ==
    LET opens == {i \in 1..Len(args) : args[i] = "{"}
        closes == {j \in 1..Len(args) : args[j] = "}" /\ opens # {} /\ j > Min(opens)}
    IN IF closes = {} THEN NoMatch ELSE SubSeq(args, Min(opens) + 1, Min(closes) - 1)
parseNodeJsExample(nodeJsCode) ==
    IF CallArgs(nodeJsCode) = NoMatch \/ ObjectContent(CallArgs(nodeJsCode)) = NoMatch
    THEN Obj(<<>>)
    ELSE AssignMatches(Obj(<<>>), ObjectContent(CallArgs(nodeJsCode)), 1, ":", TRUE)

\* structPattern /\w+\{([^}]+)\}/: the first word followed by { ... }
StructContent(goCode) ==
    LET closes(i) == {j \in (i + 3)..Len(goCode) : goCode[j] = "}"}
        at == {i \in 1..Len(goCode) - 3 :
                 IsWord(goCode[i]) /\ goCode[i + 1] = "{" /\ goCode[i + 2] # "}"
                 /\ closes(i) # {}}
    IN IF at = {} THEN NoMatch
       ELSE SubSeq(goCode, Min(at) + 2, Min(closes(Min(at))) - 1)
parseGoExample(goCode) ==
    IF StructContent(goCode) = NoMatch THEN Obj(<<>>)
    ELSE AssignMatches(Obj(<<>>), StructContent(goCode), 1, ":", FALSE)

\* the default branch: JSON.parse of the text from the first { to the last }
parseOtherExample(code) ==
    IF BraceMatch(code) # NoMatch /\ JSONParse(BraceMatch(code)).ok
    THEN JSONParse(BraceMatch(code)).v
    ELSE Obj(<<>>)

\* code.match(/https?:\/\/[^\s]+(\/[^\s'"]+)/)[1]
PathMatch(code) ==
    LET plain(c) == ~IsSpace(c) /\ ~IsQuote(c)
        schemes == {i \in 1..Len(code) : code[i] \in {"https://", "http://"}}
        slashes(i) == {s \in (i + 2)..(Len(code) - 1) :
                         /\ code[s] = "/" /\ plain(code[s + 1])
                         /\ \A k \in (i + 1)..s : ~IsSpace(code[k])}
        at == {i \in schemes : slashes(i) # {}}
        slash == Max(slashes(Min(at)))
        stops == {j \in (slash + 1)..Len(code) : ~plain(code[j])}
    IN IF at = {} THEN NoMatch
       ELSE SubSeq(code, slash, IF stops = {} THEN Len(code) ELSE Min(stops) - 1)
\* path.split('/').filter(Boolean), and the last segment up to its ?
LastSegment(path) ==
    LET segments == SelectSeq(Split(path, "/"), LAMBDA s : s # <<>>)
    IN IF segments = <<>> THEN <<>> ELSE Split(segments[Len(segments)], "?")[1]
\* lastSegment.includes('{') || lastSegment.includes('}')
HasBrace(segment) ==
    \E i \in 1..Len(segment) : segment[i] \in {"{", "}", Placeholder("id")}
\* code.match(/\.(?:delete|get|retrieve)\(["']([^"']+)["']\)/)[1]
ArgMatch(code) ==
    LET at == {i \in 1..Len(code) - 3 :
                 /\ code[i] = "." /\ code[i + 1] \in {"delete", "get", "retrieve"}
                 /\ code[i + 2] = "(" /\ QuotedEnd(code, i + 3) # 0
                 /\ QuotedEnd(code, i + 3) <= Len(code)
                 /\ code[QuotedEnd(code, i + 3)] = ")"}
    IN IF at = {} THEN NoMatch ELSE QuotedText(code, Min(at) + 3)

\* the value recovered for the URL-path field, written into parsed
WithUrlField(parsed, lang, code, urlName) ==
    LET fromPath ==
          IF /\ lang = "curl" /\ PathMatch(code) # NoMatch
             /\ LastSegment(PathMatch(code)) # <<>>
             /\ ~HasBrace(LastSegment(PathMatch(code)))
          THEN Set(parsed, urlName, Str(LastSegment(PathMatch(code))))
          ELSE parsed
    IN IF urlName = "" THEN parsed
       ELSE IF lang \in {"python", "node.js", "node"} /\ ArgMatch(code) # NoMatch
       THEN Set(fromPath, urlName, Str(ArgMatch(code)))
       ELSE fromPath

\* field.name as the text the parser compares keys with
NameText(field) == Concat(Join([i \in 1..Len(field.name) |-> <<field.name[i]>>], <<".">>))
\* a plausible slip: nothing is filtered out
FilterParsedAll(parsed, ffs) == parsed
\* the two loops that copy the recognised keys of parsed
FilterParsed(parsed, ffs) ==
    LET baseNames == {ffs[i].name[1] : i \in 1..Len(ffs)}
        filtered == Obj(SelectSeq(parsed.o, LAMBDA m : m.k \in baseNames))
        exact(acc, i) ==
            IF Get(parsed, NameText(ffs[i])) # Undefined /\ ~Truthy(Get(acc, NameText(ffs[i])))
            THEN Set(acc, NameText(ffs[i]), Get(parsed, NameText(ffs[i])))
            ELSE acc
        loop[i \in 0..Len(ffs)] == IF i = 0 THEN filtered ELSE exact(loop[i - 1], i)
    IN loop[Len(ffs)]

toLowerCase(language) ==
    CASE language = "cURL" -> "curl"
      [] language = "Python" -> "python"
      [] language = "Go" -> "go"
      [] OTHER -> language
\* what the switch on the language extracts
ParseByLanguage(lang, code) ==
    CASE lang = "curl" -> parseCurlExample(code)
      [] lang = "python" -> parsePythonExample(code)
      [] lang \in {"node.js", "node", "javascript", "js"} -> parseNodeJsExample(code)
      [] lang = "go" -> parseGoExample(code)
      [] OTHER -> parseOtherExample(code)
\* parsed as it stands before the filter
Extracted(language, code, urlName) ==
    Propagate(ParseByLanguage(toLowerCase(language), code),
              LAMBDA parsed : WithUrlField(parsed, toLowerCase(language), code, urlName))
parseExampleCode(language, code, ffs, urlName) ==
    Propagate(Extracted(language, code, urlName), LAMBDA parsed : FilterParsed(parsed, ffs))

(* ------------------- endpoints and examples drawn --------------------- *)
FlatSchema ==
    [type |-> "object",
     properties |-> <<P("name", StrS), P("count", [type |-> "integer"]), P("note", StrS)>>,
     required |-> <<"name">>]
NestedSchema ==
    [type |-> "object",
     properties |-> <<P("name", StrS),
                      P("user", [type |-> "object", properties |-> <<P("email", StrS)>>])>>]
ParseOperations ==
    {Operation("post", IdParam(StrS), <<>>, [schema |-> FlatSchema], a) : a \in BOOLEAN}
    \cup {Operation("post", IdParam(StrS), <<QParam("q", StrS)>>, [schema |-> FlatSchema], FALSE),
          Operation("post", IdParam(StrS), <<>>, [schema |-> NestedSchema], FALSE),
          Operation("delete", IdParam(StrS), <<>>, NoContent, FALSE)}
UrlFieldNames == {"", "id"}

\* string and number values of a flat body
RoundTripValues ==
    { S("nm"), Str(<<>>), Num(7), Num(0),
      Str(<<"x", " ", "y">>), Str(<<"it", "'", "s">>),
      Str(<<"a", "\"", "b">>), Str(<<"a", "\\", "n">>), Str(<<"a", "\\">>),
      Str(<<"a", "\n", "b">>) }
\* the value maps over the text and number fields of the form, their keys
\* in the order of the fields
RoundTripInputs(ffs) ==
    LET simple == {i \in 1..Len(ffs) : Len(ffs[i].name) = 1 /\ ffs[i].type \in {"text", "number"}}
        entries == {[i |-> i, e |-> KV(ffs[i].name[1], v)] : i \in simple, v \in RoundTripValues}
        ordered(l) == \A a, b \in 1..Len(l) : a < b => l[a].i < l[b].i
    IN {Obj([n \in 1..Len(l) |-> l[n].e]) :
          l \in {s \in SeqsUpTo(entries, MaxEntries) : ordered(s)}}

Url(path) == <<"https://", "api.example.com">> \o path
Quoted(q, text) == <<q>> \o text \o <<q>>
Call(verb, args) == <<"client", ".", "items", ".", verb, "(">> \o args \o <<")">>
\* examples written by hand in the document, in the languages it may name
ExamplePool ==
    { [language |-> "curl",
       code |-> <<"curl", " ", "-X", " ", "DELETE", " ">> \o Url(<<"/", "items", "/", "abc">>)],
      [language |-> "cURL",
       code |-> <<"curl", " ", "'">>
                \o Url(<<"/", "items", "/", "abc", "?", "q", "=", "x", "%20", "y", "&",
                         "extra", "=", "7">>) \o <<"'">>],
      [language |-> "curl",
       code |-> <<"curl", " ">> \o Url(<<"/", "items", "/", Placeholder("id")>>)],
      [language |-> "curl",
       code |-> <<"curl", " ">> \o Url(<<"/", "items">>) \o <<" ", "\\", "\n", " ", "-d", " ">>
                \o Quoted("\"", <<"{", "\\", "\"", "name", "\\", "\"", ":", " ",
                                  "\\", "\"", "nm", "\\", "\"", ",", " ",
                                  "\\", "\"", "extra", "\\", "\"", ":", " ", "7", ",", "}">>)],
      [language |-> "python", code |-> Call("delete", Quoted("\"", <<"abc">>))],
      [language |-> "Python",
       code |-> Call("create", <<"name", "=">> \o Quoted("\"", <<"nm">>)
                               \o <<",", " ", "extra", " ", "=", " ">> \o Quoted("'", <<"e">>))],
      [language |-> "node.js", code |-> <<"await", " ">> \o Call("retrieve", Quoted("'", <<"abc">>))],
      [language |-> "javascript", code |-> Call("delete", Quoted("'", <<"abc">>))],
      [language |-> "node",
       code |-> Call("create", <<"{", " ", "name", ":", " ">> \o Quoted("\"", <<"n", " ", "m">>)
                               \o <<",", " ", "\"", "extra", "\"", ":", " ">>
                               \o Quoted("'", <<"e">>) \o <<" ", "}">>)],
      [language |-> "Go",
       code |-> <<"client", ".", "Items", ".", "New", "(", "ctx", ",", " ", "ItemParams", "{",
                  "name", ":", " ">> \o Quoted("\"", <<"nm">>)
                \o <<",", " ", "Extra", ":", " ">> \o Quoted("\"", <<"e">>) \o <<"}", ")">>],
      [language |-> "json",
       code |-> <<"{", "\n", " ", "\"", "name", "\"", ":", " ", "\"", "nm", "\"", ",", "\n",
                  " ", "\"", "user", "\"", ":", " ", "{", "\"", "email", "\"", ":", " ",
                  "\"", "e", "\"", "}", ",", "\n",
                  " ", "\"", "user.email", "\"", ":", " ", "\"", "x", "\"", ",", "\n",
                  " ", "\"", "extra", "\"", ":", " ", "7", "\n", "}">>],
      [language |-> "curl",
       code |-> <<"curl", " ">> \o Url(<<"/", "items">>) \o <<" ", "-d", " ">>
                \o Quoted("'", <<"name", "=", "nm">>)],
      [language |-> "curl",
       code |-> <<"curl", " ">> \o Url(<<"/", "items">>) \o <<" ", "-d", " ">>
                \o Quoted("'", <<"{", "name", ":", " ", "nm", "}">>)],
      [language |-> "ruby", code |-> <<"Item", ".", "create", "(", "{", " ", "name", ":", " ", "nm", " ", "}", ")">>],
      [language |-> "text", code |-> <<"see", " ", "the", " ", "guide">>] }

\* the field list parseOpenAPIToConfig derives for the endpoint, and the
\* list a configuration written by hand may hold instead, in which the
\* nested fields stand at the top level under their dotted names
DerivedFields(oper, urlField) ==
    ParameterFields(oper.parameters, urlField)
    \o (IF Has(oper.content, "schema") THEN RequestBodyFields(oper.content.schema) ELSE <<>>)
Unnested(ffs) ==
    Flatten([i \in 1..Len(ffs) |->
               IF Has(ffs[i], "nestedFields") THEN ffs[i].nestedFields ELSE <<ffs[i]>>])
FieldLists(derived) == {derived, Unnested(derived)}

(* ---------------- specification of the example parser ---------------- *)
InitParse ==
    /\ schema = NoSchema
    /\ op = "parse"
    /\ normalized = NoSchema
    /\ fields = <<>>
    /\ kind = ""
    /\ parameters = <<>>
    /\ config = NoConfig
    /\ arrayValue = <<>>
    /\ lastChange = NoChange
    /\ operation \in ParseOperations
    /\ urlFieldName \in UrlFieldNames
    /\ formFields \in FieldLists(DerivedFields(operation, urlFieldName))
    /\ formValues = NoFormValues
    /\ samples = NoSamples
    /\ formData = NoFormValues
    /\ userModifiedFields = {}
    /\ selectedExample = NoExample
    /\ parsedValues = NoParsed
    /\ openapi = NoDocument
    /\ uiUrlField = NoUrlField
    /\ urlValue = NoUrlValue
    /\ submitted = NoRequest
    /\ now = 0
    /\ requestStore = NoStore
    /\ answers = <<>>
    /\ handlers = <<>>
    /\ deduplicationStore = {}
    /\ currentEndpointKeyRef = ""
    /\ abortControllerRef = 0
    /\ apiResponse = NoOutcome
    /\ error = NoOutcome
    /\ isLoading = FALSE
    /\ requests = <<>>

\* an example generated from a value map: the cURL sample of the generator
generateExample ==
    /\ selectedExample = NoExample
    /\ \E fv \in RoundTripInputs(formFields) :
          /\ formValues' = fv
          /\ samples' = CodeSamples(operation, fv)
          /\ selectedExample' = [language |-> "curl", code |-> CodeSamples(operation, fv).curl]
    /\ UNCHANGED <<schemaVars, formVars, operation, apiFormVars, urlFieldName, parsedValues, authVars, runVars, limitVars, dedupVars, pageVars>>

\* an example the document carries
documentExample ==
    /\ selectedExample = NoExample
    /\ selectedExample' \in ExamplePool
    /\ UNCHANGED <<schemaVars, formVars, genVars, apiFormVars, urlFieldName, parsedValues, authVars, runVars, limitVars, dedupVars, pageVars>>

\* the call of parseExampleCode for the selected example
DoParseExampleCode ==
    /\ selectedExample # NoExample
    /\ parsedValues = NoParsed
    /\ parsedValues' = parseExampleCode(selectedExample.language, selectedExample.code, formFields, urlFieldName)
    /\ UNCHANGED <<schemaVars, formVars, genVars, apiFormVars, selectedExample, urlFieldName, authVars, runVars, limitVars, dedupVars, pageVars>>

NextParse == generateExample \/ documentExample \/ DoParseExampleCode

SpecParse == InitParse /\ [][NextParse]_vars

IsParsed == op = "parse" /\ parsedValues # NoParsed
BodyPropertyNames == {BodyProperties[i].name : i \in 1..Len(BodyProperties)}
KeysOf(obj) == {obj.o[i].k : i \in 1..Len(obj.o)}

\* C18: parsing the generated cURL sample of a flat string/number body
\* returns a value map equal to the form values it was generated from.
C18_RoundTrip ==
    (IsParsed /\ Generated /\ KeysOf(formValues) \subseteq BodyPropertyNames)
    => EntriesOf(parsedValues) = EntriesOf(formValues)

\* the path value the claim calls extractable from the selected example
CallBased == {"python", "node.js", "node", "javascript", "js", "go"}
ExtractablePathValue ==
    LET lang == toLowerCase(selectedExample.language)
    IN IF lang = "curl"
       THEN IF PathMatch(selectedExample.code) # NoMatch /\ ~HasBrace(LastSegment(PathMatch(selectedExample.code)))
            THEN LastSegment(PathMatch(selectedExample.code)) ELSE <<>>
       ELSE IF lang \in CallBased /\ ArgMatch(selectedExample.code) # NoMatch
       THEN ArgMatch(selectedExample.code)
       ELSE <<>>

\* C19: given a URL-path field name and a sample from which a path value
\* can be extracted, the returned map binds that name to the value.
C19_UrlFieldBound ==
    (IsParsed /\ urlFieldName # "" /\ ExtractablePathValue # <<>>)
    => Get(parsedValues, urlFieldName) = Str(ExtractablePathValue)

FieldNameTexts == {NameText(formFields[i]) : i \in 1..Len(formFields)}
FieldBaseNames == {formFields[i].name[1] : i \in 1..Len(formFields)}
ExtractedNow == Extracted(selectedExample.language, selectedExample.code, urlFieldName)

\* C20: every key of the map parseExampleCode returns is the exact name
\* of a supplied field or the first dot-segment of one; every other
\* extracted key is discarded; the value of a retained key is the
\* extracted value.
C20_FilteredKeys ==
    IsParsed
    => /\ KeysOf(parsedValues) \subseteq FieldNameTexts \cup FieldBaseNames
       /\ \A k \in KeysOf(ExtractedNow) \ (FieldNameTexts \cup FieldBaseNames) :
             ~HasKey(parsedValues, k)
       /\ \A k \in KeysOf(parsedValues) : Get(parsedValues, k) = Get(ExtractedNow, k)

\* C20 witness: an example whose extracted keys are an exact dotted name,
\* a first segment, a top-level name and a key no field has; the first
\* three are returned, the last is not.
C20_Witness ==
    /\ IsParsed
    /\ KeysOf(ExtractedNow) = {"name", "user", "user.email", "extra"}
    /\ KeysOf(parsedValues) = {"name", "user", "user.email"}
    /\ FieldNameTexts = {"name", "user.email"}

\* what the stages of the parser recognise in the selected example
StrictParses == JSONParse(JsonContent(selectedExample.code)).ok
IsolatedParses ==
    /\ BraceMatch(JsonContent(selectedExample.code)) # NoMatch
    /\ JSONParse(BraceMatch(JsonContent(selectedExample.code))).ok
RepairedParses ==
    /\ BraceMatch(JsonContent(selectedExample.code)) # NoMatch
    /\ JSONParse(RepairedJson(selectedExample.code)).ok
NothingRecognized ==
    LET lang == toLowerCase(selectedExample.language)
    IN /\ ExtractablePathValue = <<>> \/ urlFieldName = ""
       /\ IF lang = "curl"
          THEN /\ QueryMatch(selectedExample.code) = NoMatch
               /\ \/ AfterDataFlag(selectedExample.code) = NoMatch
                  \/ ~StrictParses /\ ~IsolatedParses /\ ~RepairedParses
          ELSE /\ lang \notin CallBased
               /\ \/ BraceMatch(selectedExample.code) = NoMatch
                  \/ ~JSONParse(BraceMatch(selectedExample.code)).ok

\* C21: parseExampleCode never raises, whatever the language tag and the
\* text: its outcome is always a map; a payload the strict parse rejects
\* is still read when the isolated {...} substring or its repair parses;
\* and input no stage recognises yields the empty map.
C21_NeverRaises ==
    IsParsed
    => /\ parsedValues # Thrown
       /\ IsObj(parsedValues)
       /\ NothingRecognized => parsedValues = Obj(<<>>)
       /\ (toLowerCase(selectedExample.language) = "curl"
           /\ AfterDataFlag(selectedExample.code) # NoMatch
           /\ ~StrictParses /\ (IsolatedParses \/ RepairedParses))
          => KeysOf(ExtractedNow) # {}

\* C21 witness: a cURL example whose payload fails the strict parse, the
\* parse of the isolated substring and the parse of its repair; the
\* outcome is the empty map.
C21_Witness ==
    /\ IsParsed
    /\ toLowerCase(selectedExample.language) = "curl"
    /\ AfterDataFlag(selectedExample.code) # NoMatch
    /\ BraceMatch(JsonContent(selectedExample.code)) # NoMatch
    /\ ~StrictParses /\ ~IsolatedParses /\ ~RepairedParses
    /\ parsedValues = Obj(<<>>)

(* ------------------ authentication and headers of the samples --------- *)
\* The document's security part is [security, securitySchemes], each key
\* present only when the document has it: a security requirement object is
\* the sequence of its keys (scheme names), securitySchemes is the sequence
\* of its entries in declaration order. An operation of this part carries
\* the request body's content map as media, a sequence of entries keyed by
\* media type, and its own security list where the document gives one.
NoScheme == [nil |-> TRUE]
NoAuthType == ""
apiKeyDisplay == "YOUR_API_KEY"

NonEmptyList(r, f) == Has(r, f) /\ Len(r[f]) > 0
\* Object.keys(requirement)[0] || null
FirstKey(requirement) == IF Len(requirement) > 0 THEN requirement[1] ELSE NoAuthType

\* hasAuth of generateCodeSamples
HasAuth(oper, doc) ==
    \/ NonEmptyList(oper, "security")
    \/ NonEmptyList(doc, "security")
    \/ NonEmptyList(doc, "securitySchemes")

\* a plausible slip: the global requirement consulted before the operation's
AuthTypeGlobalFirst(oper, doc) ==
    LET fromGlobal == IF NonEmptyList(doc, "security")
                      THEN FirstKey(doc.security[1]) ELSE NoAuthType
        fromOperation == IF fromGlobal = NoAuthType /\ NonEmptyList(oper, "security")
                         THEN FirstKey(oper.security[1]) ELSE fromGlobal
    IN IF ~HasAuth(oper, doc) THEN NoAuthType
       ELSE IF fromOperation = NoAuthType /\ Has(doc, "securitySchemes")
       THEN (IF Len(doc.securitySchemes) > 0 THEN doc.securitySchemes[1].k ELSE NoAuthType)
       ELSE fromOperation

\* authType of generateCodeSamples
AuthType(oper, doc) ==
    LET fromOperation == IF NonEmptyList(oper, "security")
                         THEN FirstKey(oper.security[1]) ELSE NoAuthType
        fromGlobal == IF fromOperation = NoAuthType /\ NonEmptyList(doc, "security")
                      THEN FirstKey(doc.security[1]) ELSE fromOperation
    IN IF ~HasAuth(oper, doc) THEN NoAuthType
       ELSE IF fromGlobal = NoAuthType /\ Has(doc, "securitySchemes")
       THEN (IF Len(doc.securitySchemes) > 0 THEN doc.securitySchemes[1].k ELSE NoAuthType)
       ELSE fromGlobal

\* spec.components.securitySchemes[name], NoScheme when it is not declared
SchemeNamed(doc, name) ==
    IF Has(doc, "securitySchemes") /\ \E i \in 1..Len(doc.securitySchemes) :
                                         doc.securitySchemes[i].k = name
    THEN LET i == CHOOSE j \in 1..Len(doc.securitySchemes) : doc.securitySchemes[j].k = name
         IN doc.securitySchemes[i].v
    ELSE NoScheme

\* authScheme of generateCodeSamples
AuthScheme(oper, doc) ==
    IF AuthType(oper, doc) # NoAuthType THEN SchemeNamed(doc, AuthType(oper, doc))
    ELSE NoScheme

getAuthHeaderName(authScheme) ==
    IF authScheme = NoScheme THEN "Authorization"
    ELSE IF authScheme.type = "apiKey" /\ Has(authScheme, "in") /\ authScheme.in = "header"
    THEN (IF Has(authScheme, "name") /\ authScheme.name # "" THEN authScheme.name
          ELSE "Authorization")
    ELSE "Authorization"

getAuthHeaderValue(authScheme, apiKey) ==
    IF authScheme = NoScheme THEN apiKey
    ELSE IF authScheme.type = "apiKey" THEN apiKey
    ELSE IF authScheme.type = "http" /\ Has(authScheme, "scheme")
    THEN (CASE authScheme.scheme = "bearer" -> "Bearer " \o apiKey
            [] authScheme.scheme = "basic" -> "Basic " \o apiKey
            [] OTHER -> apiKey)
    ELSE apiKey

\* contentType of generateCodeSamples: the first key of the content map
ContentTypeOf(oper) ==
    IF Has(oper, "media") /\ Len(oper.media) > 0 /\ oper.media[1].k # ""
    THEN oper.media[1].k ELSE "application/json"
\* requestBodyContent[contentType], NoContent when there is none
ContentOf(oper) ==
    IF Has(oper, "media") /\ Len(oper.media) > 0 /\ oper.media[1].k # ""
    THEN oper.media[1].v ELSE NoContent

\* the header lines the three renderers write: Content-Type with a body,
\* then the authentication header with hasAuth
HeaderLines(hasBody, hasAuth, authScheme, contentType) ==
    (IF hasBody THEN <<KV("Content-Type", contentType)>> ELSE <<>>)
    \o (IF hasAuth
        THEN <<KV(getAuthHeaderName(authScheme), getAuthHeaderValue(authScheme, apiKeyDisplay))>>
        ELSE <<>>)

\* what the Python sample hands to requests.<method>: the URL, params=,
\* json= (Undefined when the argument is not passed) and the lines of
\* headers=, none when it is not passed; declared holds the lines of the
\* headers dictionary the sample assigns
PythonCall(method, url, queryParams, requestBody, hasAuth, authScheme, contentType) ==
    LET hasQuery == KeyCount(queryParams) > 0
        hasBody == HasBody(requestBody)
        lines == HeaderLines(hasBody, hasAuth, authScheme, contentType)
    IN [function |-> "requests." \o method,
        url |-> url,
        params |-> IF hasQuery THEN queryParams ELSE Undefined,
        json |-> IF hasBody THEN requestBody ELSE Undefined,
        declared |-> lines,
        headers |-> IF hasAuth THEN lines ELSE <<>>]

\* what the JavaScript sample hands to fetch: the URL with its query string
\* and the options object
JavaScriptCall(method, url, queryParams, requestBody, hasAuth, authScheme, contentType) ==
    LET hasBody == HasBody(requestBody)
    IN [url |-> url \o QueryString(queryParams),
        method |-> toUpperCase(method),
        headers |-> HeaderLines(hasBody, hasAuth, authScheme, contentType),
        body |-> IF hasBody THEN requestBody ELSE Undefined]

\* the arguments of the cURL sample: -X, the URL, every -H and -d
CurlCall(method, url, queryParams, requestBody, hasAuth, authScheme, contentType) ==
    LET hasBody == HasBody(requestBody)
    IN [url |-> url \o QueryString(queryParams),
        method |-> toUpperCase(method),
        headers |-> HeaderLines(hasBody, hasAuth, authScheme, contentType),
        data |-> IF hasBody THEN requestBody ELSE Undefined]

\* the three samples of one call of generateCodeSamples with the security
\* scheme it detected
AuthSamples(oper, doc, fv) ==
    LET fullPath == FullPath(oper.path, oper.parameters, Len(oper.parameters), fv)
        queryParams == QueryParams(oper.parameters, Len(oper.parameters), fv)
        requestBody == RequestBody(ContentOf(oper), fv)
        hasAuth == HasAuth(oper, doc)
        authScheme == AuthScheme(oper, doc)
        contentType == ContentTypeOf(oper)
        url == BaseUrl \o fullPath
    IN [hasAuth |-> hasAuth,
        authType |-> AuthType(oper, doc),
        authScheme |-> authScheme,
        contentType |-> contentType,
        requestBody |-> requestBody,
        queryParams |-> queryParams,
        python |-> PythonCall(oper.method, url, queryParams, requestBody,
                              hasAuth, authScheme, contentType),
        javascript |-> JavaScriptCall(oper.method, url, queryParams, requestBody,
                                      hasAuth, authScheme, contentType),
        curl |-> CurlCall(oper.method, url, queryParams, requestBody,
                          hasAuth, authScheme, contentType)]

(* ----------------------- documents and operations drawn --------------- *)
ApiKeyHeader == [type |-> "apiKey", in |-> "header", name |-> "X-API-Key"]
ApiKeyQuery == [type |-> "apiKey", in |-> "query", name |-> "api_key"]
HttpBearer == [type |-> "http", scheme |-> "bearer"]
HttpBasic == [type |-> "http", scheme |-> "basic"]
OAuth2 == [type |-> "oauth2"]
SchemeLists ==
    { <<>>,
      <<KV("keyAuth", ApiKeyHeader), KV("bearerAuth", HttpBearer), KV("basicAuth", HttpBasic)>>,
      <<KV("basicAuth", HttpBasic), KV("keyAuth", ApiKeyHeader), KV("bearerAuth", HttpBearer)>>,
      <<KV("bearerAuth", HttpBearer), KV("basicAuth", HttpBasic), KV("keyAuth", ApiKeyHeader)>>,
      <<KV("queryAuth", ApiKeyQuery), KV("oauth", OAuth2), KV("keyAuth", ApiKeyHeader)>> }
\* security lists: none, empty, one requirement, an anonymous requirement
\* first, two schemes in one requirement
SecurityLists ==
    { <<>>, << <<"keyAuth">> >>, << <<"bearerAuth">> >>, << <<"basicAuth">> >>,
      << <<>>, <<"basicAuth">> >>, << <<"bearerAuth", "keyAuth">>, <<"basicAuth">> >>,
      << <<"undeclared">> >> }
WithOpt(r, f, choices) == {r} \cup {Ext(r, f, c) : c \in choices}
DocumentInputs ==
    UNION {WithOpt(d, "securitySchemes", SchemeLists) :
             d \in WithOpt([servers |-> <<BaseUrl>>], "security", SecurityLists)}
MediaInputs ==
    { <<>>,
      <<KV("application/json", [schema |-> NameSchema])>>,
      <<KV("application/x-www-form-urlencoded", [schema |-> NameSchema]),
        KV("application/json", [schema |-> NameSchema])>> }
AuthOperations ==
    UNION {WithOpt(o, "security", SecurityLists) :
             o \in UNION {WithOpt([method |-> "post", path |-> PathTemplate,
                                   parameters |-> <<IdParam(StrS)>> \o PlainQuery],
                                  "media", MediaInputs)}}
AuthFormValues ==
    { Undefined,
      Obj(<<KV("id", S("abc")), KV("name", S("nm"))>>),
      Obj(<<KV("q", Str(<<"x", " ", "y">>)), KV("tags", Arr(<<S("a"), S("b")>>))>>) }

(* ------------- specification of the samples' authentication ----------- *)
InitAuth ==
    /\ schema = NoSchema
    /\ op = "generate"
    /\ normalized = NoSchema
    /\ fields = <<>>
    /\ kind = ""
    /\ parameters = <<>>
    /\ config = NoConfig
    /\ arrayValue = <<>>
    /\ lastChange = NoChange
    /\ operation \in AuthOperations
    /\ formValues = Undefined
    /\ samples = NoSamples
    /\ formFields = <<>>
    /\ formData = NoFormValues
    /\ userModifiedFields = {}
    /\ selectedExample = NoExample
    /\ urlFieldName = ""
    /\ parsedValues = NoParsed
    /\ openapi \in DocumentInputs
    /\ uiUrlField = NoUrlField
    /\ urlValue = NoUrlValue
    /\ submitted = NoRequest
    /\ now = 0
    /\ requestStore = NoStore
    /\ answers = <<>>
    /\ handlers = <<>>
    /\ deduplicationStore = {}
    /\ currentEndpointKeyRef = ""
    /\ abortControllerRef = 0
    /\ apiResponse = NoOutcome
    /\ error = NoOutcome
    /\ isLoading = FALSE
    /\ requests = <<>>

\* one call of generateCodeSamples for an operation of the document
DoGenerateCodeSamples ==
    /\ samples = NoSamples
    /\ \E fv \in AuthFormValues :
          /\ formValues' = fv
          /\ samples' = AuthSamples(operation, openapi, fv)
    /\ UNCHANGED <<schemaVars, formVars, operation, apiFormVars, parseVars, authVars, runVars, limitVars, dedupVars, pageVars>>

NextAuth == DoGenerateCodeSamples

SpecAuth == InitAuth /\ [][NextAuth]_vars

(* --------------------- claims on the samples' headers ----------------- *)
\* the scheme name a security list's first requirement gives, if any
FirstNamed(r, f) == IF NonEmptyList(r, f) THEN FirstKey(r[f][1]) ELSE NoAuthType
FirstDeclared(doc) ==
    IF NonEmptyList(doc, "securitySchemes") THEN doc.securitySchemes[1].k ELSE NoAuthType
\* the header a mechanism calls for
MechanismHeader(authScheme) ==
    CASE authScheme.type = "apiKey" -> KV(authScheme.name, apiKeyDisplay)
      [] authScheme.scheme = "bearer" -> KV("Authorization", "Bearer " \o apiKeyDisplay)
      [] authScheme.scheme = "basic" -> KV("Authorization", "Basic " \o apiKeyDisplay)
NamedMechanisms == {ApiKeyHeader, HttpBearer, HttpBasic}
\* the authentication header line of a rendered header list
AuthLine(lines) == lines[Len(lines)]

\* C22: the samples use the scheme named by the operation's first security
\* requirement, else the one named by the document's first global
\* requirement, else the first scheme declared; for an apiKey header scheme
\* the three samples render its header name with the bare key, for HTTP
\* bearer Authorization: Bearer <key>, for HTTP basic Authorization: Basic
\* <key>.
C22_SchemePrecedence ==
    samples # NoSamples
    => /\ samples.authType =
            (IF FirstNamed(operation, "security") # NoAuthType
             THEN FirstNamed(operation, "security")
             ELSE IF FirstNamed(openapi, "security") # NoAuthType
             THEN FirstNamed(openapi, "security")
             ELSE FirstDeclared(openapi))
       /\ samples.authScheme = SchemeNamed(openapi, samples.authType)
       /\ samples.authScheme \in NamedMechanisms
          => /\ AuthLine(samples.python.declared) = MechanismHeader(samples.authScheme)
             /\ AuthLine(samples.javascript.headers) = MechanismHeader(samples.authScheme)
             /\ AuthLine(samples.curl.headers) = MechanismHeader(samples.authScheme)

\* all three levels name a different scheme and the operation's one, HTTP
\* bearer, is rendered
C22_Witness ==
    /\ samples # NoSamples
    /\ FirstNamed(operation, "security") = "bearerAuth"
    /\ FirstNamed(openapi, "security") = "basicAuth"
    /\ FirstDeclared(openapi) = "keyAuth"
    /\ AuthLine(samples.curl.headers) = KV("Authorization", "Bearer YOUR_API_KEY")

(* --------------------- the request each sample sends ------------------ *)
\* A request is [url, query, body, headers]: the URL without its query
\* string, the query as a sequence of <<key, value>> pairs, the JSON body
\* (Undefined without one) and the set of header lines.
FirstIndex(t, x) == CHOOSE i \in 1..Len(t) : t[i] = x /\ \A j \in 1..(i - 1) : t[j] # x
BeforeQuery(url) == IF Includes(url, "?") THEN SubSeq(url, 1, FirstIndex(url, "?") - 1) ELSE url
AfterQuery(url) ==
    IF Includes(url, "?") THEN SubSeq(url, FirstIndex(url, "?") + 1, Len(url)) ELSE <<>>
\* the pairs a server reads from a query string
QueryPairsOf(query) ==
    IF query = <<>> THEN <<>>
    ELSE LET parts == Split(query, "&")
         IN [i \in 1..Len(parts) |->
               <<Head(parts[i]), Decode(SubSeq(parts[i], 3, Len(parts[i])))>>]
\* the pairs requests sends for params=: one per item of a list, one per
\* other value
ParamPairs(params) ==
    IF params = Undefined THEN <<>>
    ELSE Flatten([i \in 1..Len(params.o) |->
                    LET k == params.o[i].k
                        v == params.o[i].v
                    IN IF IsArr(v) THEN [j \in 1..Len(v.a) |-> <<k, ToText(v.a[j])>>]
                       ELSE << <<k, ToText(v)>> >>])
HeaderSet(lines) == {lines[i] : i \in 1..Len(lines)}
HeaderNames(headers) == {h.k : h \in headers}

\* requests.<method>(url, params=, json=, headers=): json= serializes the
\* payload and sets Content-Type: application/json unless headers= carries
\* a Content-Type
PythonRequest(call) ==
    LET passed == HeaderSet(call.headers)
    IN [url |-> call.url,
        query |-> ParamPairs(call.params),
        body |-> call.json,
        headers |-> IF call.json # Undefined /\ "Content-Type" \notin HeaderNames(passed)
                    THEN passed \cup {KV("Content-Type", "application/json")}
                    ELSE passed]
\* fetch(url, options)
JavaScriptRequest(call) ==
    [url |-> BeforeQuery(call.url),
     query |-> QueryPairsOf(AfterQuery(call.url)),
     body |-> call.body,
     headers |-> HeaderSet(call.headers)]
\* curl -X METHOD 'url' -H ... -d ...
CurlRequest(call) ==
    [url |-> BeforeQuery(call.url),
     query |-> QueryPairsOf(AfterQuery(call.url)),
     body |-> call.data,
     headers |-> HeaderSet(call.headers)]

\* C23 as stated: the three samples of one call describe the same request,
\* the same URL, query parameters, body and headers sent, so a header or a
\* query parameter is transmitted by one sample exactly when the other two
\* transmit it.
C23_SameRequest ==
    samples # NoSamples
    => /\ PythonRequest(samples.python) = JavaScriptRequest(samples.javascript)
       /\ JavaScriptRequest(samples.javascript) = CurlRequest(samples.curl)

(* ------------- claims on the items the array field stores ------------- *)
\* the keys an item may hold: the discriminator property and the names of
\* the fields registered for the discriminator value the item selects
AllowedKeys(cfg, item) ==
    LET pn == cfg.discriminator.propertyName
        registered == IF Has(item, pn) /\ item[pn] \in DOMAIN cfg.discriminator.variants
                      THEN cfg.discriminator.variants[item[pn]] ELSE <<>>
    IN {pn} \cup {getFieldName(registered[j]) : j \in 1..Len(registered)}

\* C24 as stated: after any sequence of add-item, remove-item, field-edit
\* and discriminator-change operations, every stored item of a discriminated
\* array-of-object field holds only the discriminator key and keys of
\* fields registered for the item's currently selected discriminator value.
C24_OnlyVariantKeys ==
    \A i \in 1..Len(arrayValue) : DOMAIN arrayValue[i] \subseteq AllowedKeys(config, arrayValue[i])

(* ------------- the URL field, the samples and the proxy request ------- *)
\* The urlField entry of the endpoint's UI configuration is a record of the
\* keys it gives (name, label, placeholder, defaultValue), NoUrlField when
\* the endpoint has none; labels, placeholders and descriptions are texts.
formatLabel(name) ==
    CASE name = "id" -> <<"Id">>
      [] name = "q" -> <<"Q">>
      [] OTHER -> <<name>>
TextOr(r, f, other) == IF Has(r, f) /\ r[f] # <<>> THEN r[f] ELSE other

\* urlField of parseOpenAPIToConfig after the parameter lookup
ResolvedUrlField(ui, params) ==
    IF ui = NoUrlField THEN NoUrlField
    ELSE LET named == Has(ui, "name") /\ ui.name # ""
             hits == IF named THEN SelectSeq(params, LAMBDA p : p.name = ui.name)
                     ELSE SelectSeq(params, LAMBDA p : p.in = "path")
         IN IF hits # <<>>
            THEN LET urlParam == hits[1]
                     fromParam == Or(Opt(urlParam.schema, "default"),
                                     Opt(urlParam.schema, "example"))
                 IN [name |-> urlParam.name,
                     label |-> TextOr(ui, "label", formatLabel(urlParam.name)),
                     placeholder |->
                        TextOr(ui, "placeholder",
                               TextOr(urlParam, "description",
                                      IF Has(urlParam.schema, "example")
                                      THEN ToText(urlParam.schema.example) ELSE <<>>)),
                     defaultValue |-> IF Has(ui, "defaultValue") THEN ui.defaultValue
                                      ELSE fromParam]
            ELSE IF named THEN Ext(ui, "label", TextOr(ui, "label", formatLabel(ui.name)))
            ELSE NoUrlField

\* the urlField parseOpenAPIToConfig returns: label, placeholder and
\* defaultValue, and only when label and placeholder are not empty
ConfigUrlField(ui, params) ==
    LET urlField == ResolvedUrlField(ui, params)
    IN IF urlField # NoUrlField /\ TextOr(urlField, "label", <<>>) # <<>>
          /\ TextOr(urlField, "placeholder", <<>>) # <<>>
       THEN [label |-> urlField.label, placeholder |-> urlField.placeholder,
             defaultValue |-> Opt(urlField, "defaultValue")]
       ELSE NoUrlField

\* urlField.name || 'url' of ApiForm
UrlKey(urlField) == IF Has(urlField, "name") /\ urlField.name # "" THEN urlField.name ELSE "url"
\* useState(urlField?.defaultValue || '')
InitialUrlValue(urlField) ==
    IF urlField = NoUrlField THEN Str(<<>>) ELSE Or(urlField.defaultValue, Str(<<>>))
\* data of the notify effect and of handleSubmit: { ...formData } with the
\* URL value under the URL field's key
FormDataWithUrl(fd, urlField, uv) ==
    IF urlField = NoUrlField THEN fd ELSE Set(fd, UrlKey(urlField), uv)
\* finalData of ApiForm.handleSubmit: the cleaned data with the values
\* cleaning dropped added back when they are not empty
FinalData(data, cleaned) ==
    LET back == SelectSeq(data.o, LAMBDA e :
                    /\ ~IsEmptyValue(e.v)
                    /\ ~HasKey(cleaned, e.k)
                    /\ (IsArr(e.v) \/ IsObj(e.v)) => KeyCount(e.v) > 0)
    IN Obj(cleaned.o \o back)

\* the names of the operation's parameters of one kind
ParamNames(oper, where) ==
    {oper.parameters[i].name : i \in {j \in 1..Len(oper.parameters) :
                                        oper.parameters[j].in = where}}
\* cleanPath of the /api/run handler after the first n parameters
RECURSIVE CleanPath(_, _, _, _)
CleanPath(path, params, n, data) ==
    IF n = 0 THEN path
    ELSE IF params[n].in = "path" /\ ~IsEmptyValue(Get(data, params[n].name))
    THEN ReplaceFirst(CleanPath(path, params, n - 1, data), Placeholder(params[n].name),
                      ToText(Get(data, params[n].name)))
    ELSE CleanPath(path, params, n - 1, data)
methodsWithBody == {"POST", "PUT", "PATCH", "DELETE"}
\* requestBody of the /api/run handler
RunBody(oper, data) ==
    IF toUpperCase(oper.method) \in methodsWithBody
    THEN Obj(SelectSeq(data.o, LAMBDA e :
                /\ e.k \notin ParamNames(oper, "header") \cup ParamNames(oper, "query")
                               \cup ParamNames(oper, "path")
                /\ ~IsEmptyValue(e.v)))
    ELSE Obj(<<>>)
\* what the /api/run handler forwards for the data posted by the page
RunRequest(oper, data, uv) ==
    [urlValue |-> uv,
     data |-> data,
     path |-> CleanPath(oper.path, oper.parameters, Len(oper.parameters), data),
     body |-> RunBody(oper, data)]

(* ------------------------- endpoints and values drawn ----------------- *)
HeaderParam == [name |-> "X-Trace", in |-> "header", schema |-> StrS]
RunOperations ==
    { Operation("post", IdParam(StrS), PlainQuery, [schema |-> NameSchema], FALSE),
      Operation("post", IdParam([type |-> "string", example |-> S("se")]),
                <<HeaderParam>>, [schema |-> NameSchema], FALSE),
      Operation("get", IdParam([type |-> "string", example |-> S("se")]), PlainQuery,
                NoContent, FALSE),
      Operation("delete", Ext(IdParam(StrS), "description", <<"item id">>), <<>>,
                NoContent, FALSE) }
UiUrlFieldInputs ==
    { NoUrlField,
      [label |-> <<"Item">>, placeholder |-> <<"id of the item">>],
      [name |-> "id", placeholder |-> <<"item id">>],
      [name |-> "id"] }
RunEntryPool ==
    { KV("q", Str(<<"x", " ", "y">>)), KV("q", Str(<<>>)),
      KV("tags", Arr(<<S("a"), S("b")>>)), KV("tags", Arr(<<>>)),
      KV("name", S("nm")), KV("name", Str(<<>>)),
      KV("X-Trace", S("t1")),
      KV("meta", Obj(<<KV("list", Arr(<<>>)), KV("e", Str(<<>>))>>)) }
RunFormData ==
    {Obj(es) : es \in {l \in SeqsUpTo(RunEntryPool, MaxEntries) : DistinctKeys(l)}}
UrlValues == {Str(<<>>), S("abc"), Str(<<"x", " ", "y">>)}

(* -------------- specification of the endpoint's request path ---------- *)
\* the URL field ApiForm is given for the endpoint
UrlFieldProp == ConfigUrlField(uiUrlField, operation.parameters)
\* the notify effect: the cleaned data handed to onFormChange, from which
\* the page regenerates the samples
Notified(fd, uv) ==
    /\ formValues' = cleanData(<<>>, {}, FormDataWithUrl(fd, UrlFieldProp, uv))
    /\ samples' = CodeSamples(operation, OrEmpty(formValues'))

InitRun ==
    /\ schema = NoSchema
    /\ op = "run"
    /\ normalized = NoSchema
    /\ fields = <<>>
    /\ kind = ""
    /\ parameters = <<>>
    /\ config = NoConfig
    /\ arrayValue = <<>>
    /\ lastChange = NoChange
    /\ operation \in RunOperations
    /\ uiUrlField \in UiUrlFieldInputs
    /\ formData \in RunFormData
    /\ urlValue = InitialUrlValue(ConfigUrlField(uiUrlField, operation.parameters))
    /\ formValues = cleanData(<<>>, {}, FormDataWithUrl(formData,
                                 ConfigUrlField(uiUrlField, operation.parameters), urlValue))
    /\ samples = CodeSamples(operation, OrEmpty(formValues))
    /\ submitted = NoRequest
    /\ formFields = <<>>
    /\ userModifiedFields = {}
    /\ selectedExample = NoExample
    /\ urlFieldName = ""
    /\ parsedValues = NoParsed
    /\ openapi = NoDocument
    /\ now = 0
    /\ requestStore = NoStore
    /\ answers = <<>>
    /\ handlers = <<>>
    /\ deduplicationStore = {}
    /\ currentEndpointKeyRef = ""
    /\ abortControllerRef = 0
    /\ apiResponse = NoOutcome
    /\ error = NoOutcome
    /\ isLoading = FALSE
    /\ requests = <<>>

\* the user types into the URL input
setUrlValue ==
    /\ UrlFieldProp # NoUrlField
    /\ \E uv \in UrlValues :
          /\ urlValue' = uv
          /\ Notified(formData, uv)
    /\ UNCHANGED <<schemaVars, formVars, operation, apiFormVars, parseVars, authVars,
                   uiUrlField, submitted, limitVars, dedupVars, pageVars>>

\* Run: ApiForm.handleSubmit hands finalData to the page, which posts it to
\* /api/run, where the handler builds the outbound request
handleSubmit ==
    /\ LET data == FormDataWithUrl(formData, UrlFieldProp, urlValue)
           finalData == FinalData(data, OrEmpty(cleanData(<<>>, {}, data)))
       IN submitted' = RunRequest(operation, finalData, urlValue)
    /\ UNCHANGED <<schemaVars, formVars, genVars, apiFormVars, parseVars, authVars,
                   uiUrlField, urlValue, limitVars, dedupVars, pageVars>>

NextRun == setUrlValue \/ handleSubmit

SpecRun == InitRun /\ [][NextRun]_vars

(* ------------------- claims on the path and the body ------------------ *)
\* the URL field is shown and stands for the path parameter
BoundToPathParam ==
    /\ UrlFieldProp # NoUrlField
    /\ ResolvedUrlField(uiUrlField, operation.parameters).name = PathParam.name

\* C25 as stated: for an endpoint whose URL field is bound to path parameter
\* P, the value entered in the URL field is the value substituted for {P}
\* in the regenerated samples and in the request the proxy sends.
C25_UrlValueSubstituted ==
    BoundToPathParam
    => /\ ~IsEmptyValue(urlValue) => samples.fullPath = Substituted(urlValue)
       /\ (submitted # NoRequest /\ ~IsEmptyValue(submitted.urlValue))
          => submitted.path = Substituted(submitted.urlValue)

\* C26 as stated: for a body-carrying operation the keys of the body the
\* samples show for the submitted values are the keys of the body the
\* handler sends, and no key naming a path, query or header parameter is in
\* either.
C26_SameBodyKeys ==
    (submitted # NoRequest /\ operation.content # NoContent)
    => LET shown == RequestBody(operation.content, submitted.data)
           names == ParamNames(operation, "path") \cup ParamNames(operation, "query")
                    \cup ParamNames(operation, "header")
       IN /\ KeysOf(shown) = KeysOf(submitted.body)
          /\ KeysOf(shown) \cap names = {}
          /\ KeysOf(submitted.body) \cap names = {}

(* ------------------------------ rate limiter --------------------------- *)
\* requestStore maps an identifier to its record [count, resetTime], or to
\* NoRecord; time is counted in ticks of the clock now. The limiter is
\* called with the configuration [maxRequests, windowMs].
NoRecord == [count |-> 0, resetTime |-> -1]
Identifiers == {"10.0.0.1", "unknown"}
\* the configuration the model calls the limiter with
maxRequests == 2
windowMs == 2
\* the last tick of the clock and the most calls made
MaxTime == 5
MaxCalls == 4
LimitConfig == [maxRequests |-> maxRequests, windowMs |-> windowMs]

\* checkRateLimit(identifier, cfg) at time t: the answer and the store after
\* the call
checkRateLimit(store, identifier, cfg, t) ==
    LET record == store[identifier]
    IN IF record = NoRecord \/ record.resetTime < t
       THEN [allowed |-> TRUE, remaining |-> cfg.maxRequests - 1,
             resetTime |-> t + cfg.windowMs,
             store |-> [store EXCEPT ![identifier] =
                           [count |-> 1, resetTime |-> t + cfg.windowMs]]]
       ELSE LET counted == [record EXCEPT !.count = record.count + 1]
            IN [allowed |-> counted.count <= cfg.maxRequests,
                remaining |-> IF counted.count > cfg.maxRequests THEN 0
                              ELSE cfg.maxRequests - counted.count,
                resetTime |-> record.resetTime,
                store |-> [store EXCEPT ![identifier] = counted]]

InitLimit ==
    /\ schema = NoSchema
    /\ op = "limit"
    /\ normalized = NoSchema
    /\ fields = <<>>
    /\ kind = ""
    /\ parameters = <<>>
    /\ config = NoConfig
    /\ arrayValue = <<>>
    /\ lastChange = NoChange
    /\ operation = NoOperation
    /\ formValues = NoFormValues
    /\ samples = NoSamples
    /\ formFields = <<>>
    /\ formData = NoFormValues
    /\ userModifiedFields = {}
    /\ selectedExample = NoExample
    /\ urlFieldName = ""
    /\ parsedValues = NoParsed
    /\ openapi = NoDocument
    /\ uiUrlField = NoUrlField
    /\ urlValue = NoUrlValue
    /\ submitted = NoRequest
    /\ now = 0
    /\ requestStore = [id \in Identifiers |-> NoRecord]
    /\ answers = <<>>
    /\ handlers = <<>>
    /\ deduplicationStore = {}
    /\ currentEndpointKeyRef = ""
    /\ abortControllerRef = 0
    /\ apiResponse = NoOutcome
    /\ error = NoOutcome
    /\ isLoading = FALSE
    /\ requests = <<>>

\* time passes
Tick ==
    /\ now < MaxTime
    /\ now' = now + 1
    /\ UNCHANGED <<schemaVars, formVars, genVars, apiFormVars, parseVars, authVars, runVars,
                   requestStore, answers, dedupVars, pageVars>>

\* a request of one client reaches the handler, which calls the limiter
DoCheckRateLimit ==
    /\ Len(answers) < MaxCalls
    /\ \E identifier \in Identifiers :
          LET answer == checkRateLimit(requestStore, identifier, LimitConfig, now)
          IN /\ requestStore' = answer.store
             /\ answers' = Append(answers, [identifier |-> identifier, time |-> now,
                                            allowed |-> answer.allowed])
    /\ UNCHANGED <<schemaVars, formVars, genVars, apiFormVars, parseVars, authVars, runVars,
                   now, dedupVars, pageVars>>

\* the cleanup timer deletes the records whose window is over
cleanupRateLimit ==
    /\ \E id \in Identifiers : requestStore[id] # NoRecord /\ requestStore[id].resetTime < now
    /\ requestStore' = [id \in Identifiers |->
                          IF requestStore[id].resetTime < now THEN NoRecord
                          ELSE requestStore[id]]
    /\ UNCHANGED <<schemaVars, formVars, genVars, apiFormVars, parseVars, authVars, runVars,
                   now, answers, dedupVars, pageVars>>

NextLimit == Tick \/ DoCheckRateLimit \/ cleanupRateLimit

SpecLimit == InitLimit /\ [][NextLimit]_vars

\* the calls of one identifier answered allowed = true in [t, t + windowMs)
AllowedIn(identifier, t) ==
    {i \in 1..Len(answers) : /\ answers[i].identifier = identifier
                             /\ answers[i].allowed
                             /\ t <= answers[i].time /\ answers[i].time < t + windowMs}

\* C27 as stated: for every identifier, the calls answered allowed = true
\* inside any time interval of length windowMs number at most maxRequests.
C27_SlidingWindow ==
    \A identifier \in Identifiers : \A t \in 0..MaxTime :
        Cardinality(AllowedIn(identifier, t)) <= maxRequests

(* --------------------------- request deduplication -------------------- *)
\* Text that enters the idempotency key is a sequence of single characters.
\* Printable holds the characters with the codes 32 to 126 in order, without
\* the grave accent (code 96).
Printable ==
    <<" ", "!", "\"", "#", "$", "%", "&", "'", "(", ")", "*", "+", ",", "-", ".", "/",
      "0", "1", "2", "3", "4", "5", "6", "7", "8", "9", ":", ";", "<", "=", ">", "?",
      "@", "A", "B", "C", "D", "E", "F", "G", "H", "I", "J", "K", "L", "M", "N", "O",
      "P", "Q", "R", "S", "T", "U", "V", "W", "X", "Y", "Z", "[", "\\", "]", "^", "_",
      "a", "b", "c", "d", "e", "f", "g", "h", "i", "j", "k", "l", "m", "n", "o",
      "p", "q", "r", "s", "t", "u", "v", "w", "x", "y", "z", "{", "|", "}", "~">>
charCodeAt(c) ==
    LET i == CHOOSE j \in 1..Len(Printable) : Printable[j] = c
    IN IF i <= 64 THEN 31 + i ELSE 32 + i

\* A 32-bit integer is kept as <<high, low>>, its two 16-bit halves.
\* hash = ((hash << 5) - hash) + char; hash = hash & hash
HashStep(hash, char) ==
    LET low == 31 * hash[2] + char
        high == 31 * hash[1] + (low \div 65536)
    IN <<high % 65536, low % 65536>>
\* the loop over keyString; a range [from..to] is hashed in two halves, the
\* hash so far an evaluated argument
Word32 == (0..65535) \X (0..65535)
HashOf(keyString, n) ==
    LET loop[from \in 1..n, to \in 1..n, hash \in Word32] ==
            IF from = to THEN HashStep(hash, charCodeAt(keyString[from]))
            ELSE LET mid == (from + to) \div 2
                 IN loop[mid + 1, to, loop[from, mid, hash]]
    IN IF n = 0 THEN <<0, 0>> ELSE loop[1, n, <<0, 0>>]
\* Math.abs of the signed 32-bit value
AbsOf(hash) ==
    IF hash[1] < 32768 THEN hash
    ELSE <<(65535 - hash[1] + (IF hash[2] = 0 THEN 1 ELSE 0)) % 65536,
           (65536 - hash[2]) % 65536>>

\* JSON.stringify of a string without the enclosing quotes
Escaped(cs) == Flatten([i \in 1..Len(cs) |-> EscapeChar(cs[i])])
\* JSON.stringify(keyData)
KeyString(method, path, baseUrl, endpointKey, data) ==
    <<"{", "\"", "m", "e", "t", "h", "o", "d", "\"", ":", "\"">> \o Escaped(method)
    \o <<"\"", ",", "\"", "p", "a", "t", "h", "\"", ":", "\"">> \o Escaped(path)
    \o <<"\"", ",", "\"", "b", "a", "s", "e", "U", "r", "l", "\"", ":", "\"">>
    \o Escaped(baseUrl)
    \o <<"\"", ",", "\"", "e", "n", "d", "p", "o", "i", "n", "t", "K", "e", "y", "\"", ":", "\"">>
    \o Escaped(endpointKey)
    \o <<"\"", ",", "\"", "d", "a", "t", "a", "\"", ":", "\"">> \o Escaped(JSONStringify(data))
    \o <<"\"", "}">>

\* generateIdempotencyKey; the result stands for "idempotency:" followed by
\* the hash written in base 36
generateIdempotencyKey(method, path, baseUrl, data, endpointKey) ==
    LET keyString == KeyString(method, path, baseUrl, endpointKey, data)
    IN [hash |-> AbsOf(HashOf(keyString, Len(keyString)))]

\* DEFAULT_TTL, in ticks of the clock
ttl == 2
MaxHandlers == 2
NoHandler == [pc |-> "idle"]

\* checkDuplicate(idempotencyKey) at time t
checkDuplicate(store, idempotencyKey, t) ==
    LET live == {record \in store : record.key = idempotencyKey /\ record.expiresAt > t}
    IN IF live # {}
       THEN [isDuplicate |-> TRUE, cachedResponse |-> (CHOOSE record \in live : TRUE).response]
       ELSE [isDuplicate |-> FALSE]
\* storeResponse(idempotencyKey, response) at time t
storeResponse(store, idempotencyKey, response, t) ==
    {record \in store : record.key # idempotencyKey}
    \cup {[key |-> idempotencyKey, response |-> response, expiresAt |-> t + ttl]}

\* the key the handler starts with
InitialKey(request) ==
    IF request.idempotencyKeyHeader # <<>> THEN [client |-> request.idempotencyKeyHeader]
    ELSE generateIdempotencyKey(<<"P", "O", "S", "T">>, <<"/", "a", "p", "i", "/", "r", "u", "n">>, <<>>, Obj(<<>>),
                                request.endpointKeyHeader)
\* the key after the body was validated
FinalKey(request, idempotencyKey) ==
    IF request.endpointKey # <<>>
    THEN generateIdempotencyKey(request.method, request.path, request.baseUrl, request.data,
                                request.endpointKey)
    ELSE idempotencyKey

RunRequestOf(idem, header, endpointKey, method, data) ==
    [idempotencyKeyHeader |-> idem, endpointKeyHeader |-> header, endpointKey |-> endpointKey,
     method |-> method, path |-> <<"/", "v">>,
     baseUrl |-> <<"h", "t", "t", "p", "s", ":", "/", "/", "a", ".", "i", "o">>, data |-> data]
QueryData(text) == Obj(<<KV("q", Str(text))>>)
EndpointKeys == {<<"e", "1">>, <<"e", "2">>}
\* what the endpoint page sends, and requests of other clients of the route
PageRequests ==
    {RunRequestOf(<<>>, <<"e", "1">>, <<"e", "1">>, <<"G", "E", "T">>, QueryData(<<"A", "a">>)),
     RunRequestOf(<<>>, <<"e", "1">>, <<"e", "1">>, <<"G", "E", "T">>, QueryData(<<"B", "B">>)),
     RunRequestOf(<<>>, <<"e", "2">>, <<"e", "2">>, <<"G", "E", "T">>, QueryData(<<"A", "a">>))}
OtherRequests ==
    {RunRequestOf(<<>>, <<>>, <<>>, <<"G", "E", "T">>, QueryData(<<"A", "a">>)),
     RunRequestOf(<<>>, <<>>, <<>>, <<"G", "E", "T">>, QueryData(<<"A", "b">>)),
     RunRequestOf(<<"k">>, <<"e", "1">>, <<>>, <<"G", "E", "T">>, QueryData(<<"A", "a">>))}
RunRequests == PageRequests \cup OtherRequests

InitDedup ==
    /\ schema = NoSchema
    /\ op = "dedup"
    /\ normalized = NoSchema
    /\ fields = <<>>
    /\ kind = ""
    /\ parameters = <<>>
    /\ config = NoConfig
    /\ arrayValue = <<>>
    /\ lastChange = NoChange
    /\ operation = NoOperation
    /\ formValues = NoFormValues
    /\ samples = NoSamples
    /\ formFields = <<>>
    /\ formData = NoFormValues
    /\ userModifiedFields = {}
    /\ selectedExample = NoExample
    /\ urlFieldName = ""
    /\ parsedValues = NoParsed
    /\ openapi = NoDocument
    /\ uiUrlField = NoUrlField
    /\ urlValue = NoUrlValue
    /\ submitted = NoRequest
    /\ now = 0
    /\ requestStore = NoStore
    /\ answers = <<>>
    /\ handlers = [h \in 1..MaxHandlers |-> NoHandler]
    /\ deduplicationStore = {}
    /\ currentEndpointKeyRef = ""
    /\ abortControllerRef = 0
    /\ apiResponse = NoOutcome
    /\ error = NoOutcome
    /\ isLoading = FALSE
    /\ requests = <<>>
DedupIdle == UNCHANGED <<schemaVars, formVars, genVars, apiFormVars, parseVars, authVars,
                         runVars, requestStore, answers, pageVars>>

Answer(h, request, idempotencyKey, response, cached) ==
    [pc |-> "done", request |-> request, idempotencyKey |-> idempotencyKey,
     receivedAt |-> handlers[h].receivedAt, forwardedAt |-> handlers[h].forwardedAt,
     response |-> response, cached |-> cached]

\* POST up to the first await: the key from the headers and the first look-up
PostReceive(h, request) ==
    LET idempotencyKey == InitialKey(request)
        duplicateCheck == checkDuplicate(deduplicationStore, idempotencyKey, now)
    IN /\ handlers[h] = NoHandler
       /\ handlers' = [handlers EXCEPT ![h] =
             IF duplicateCheck.isDuplicate
             THEN [pc |-> "done", request |-> request, idempotencyKey |-> idempotencyKey,
                   receivedAt |-> now, forwardedAt |-> -1,
                   response |-> duplicateCheck.cachedResponse, cached |-> TRUE]
             ELSE [pc |-> "reading", request |-> request, idempotencyKey |-> idempotencyKey,
                   receivedAt |-> now, forwardedAt |-> -1]]
       /\ UNCHANGED <<deduplicationStore, now>>
       /\ DedupIdle

\* POST from the body to the call of fetch: the key from the body, the second
\* look-up, and the request to the target API
PostForward(h) ==
    LET request == handlers[h].request
        idempotencyKey == FinalKey(request, handlers[h].idempotencyKey)
        duplicateCheck == checkDuplicate(deduplicationStore, idempotencyKey, now)
    IN /\ handlers[h].pc = "reading"
       /\ handlers' = [handlers EXCEPT ![h] =
             IF request.endpointKey # <<>> /\ duplicateCheck.isDuplicate
             THEN Answer(h, request, idempotencyKey, duplicateCheck.cachedResponse, TRUE)
             ELSE [pc |-> "fetching", request |-> request, idempotencyKey |-> idempotencyKey,
                   receivedAt |-> handlers[h].receivedAt, forwardedAt |-> now]]
       /\ UNCHANGED <<deduplicationStore, now>>
       /\ DedupIdle

\* POST after fetch resolved: a response with a 2xx status is stored
PostRespond(h, status) ==
    LET request == handlers[h].request
        idempotencyKey == handlers[h].idempotencyKey
        response == [of |-> request, status |-> status]
    IN /\ handlers[h].pc = "fetching"
       /\ deduplicationStore' =
             IF status >= 200 /\ status < 300
             THEN storeResponse(deduplicationStore, idempotencyKey, response, now)
             ELSE deduplicationStore
       /\ handlers' = [handlers EXCEPT ![h] = Answer(h, request, idempotencyKey, response, FALSE)]
       /\ UNCHANGED now
       /\ DedupIdle

\* the interval callback of startCleanup
cleanupDeduplication ==
    /\ \E record \in deduplicationStore : record.expiresAt < now
    /\ deduplicationStore' = {record \in deduplicationStore : ~(record.expiresAt < now)}
    /\ UNCHANGED <<handlers, now>>
    /\ DedupIdle

\* time passes, until an entry stored at the start can be cleaned up
DedupTick ==
    /\ now <= ttl
    /\ now' = now + 1
    /\ UNCHANGED <<handlers, deduplicationStore>>
    /\ DedupIdle

NextDedup ==
    \/ \E h \in 1..MaxHandlers, request \in RunRequests : PostReceive(h, request)
    \/ \E h \in 1..MaxHandlers : PostForward(h)
    \/ \E h \in 1..MaxHandlers, status \in {200, 500} : PostRespond(h, status)
    \/ cleanupDeduplication
    \/ DedupTick
SpecDedup == InitDedup /\ [][NextDedup]_vars

SameRequest(a, b) ==
    /\ a.method = b.method /\ a.path = b.path /\ a.baseUrl = b.baseUrl
    /\ a.data = b.data /\ a.endpointKey = b.endpointKey
NoClientKey(request) == request.idempotencyKeyHeader = <<>>
\* C28: among requests without a client Idempotency-Key header, a cached
\* response is returned only to a request equal in method, path, base URL,
\* data and endpoint key to the request whose response was stored.
C28_CachedForSameRequest ==
    \A h \in DOMAIN handlers :
        (/\ handlers[h].pc = "done" /\ handlers[h].cached
         /\ NoClientKey(handlers[h].request) /\ NoClientKey(handlers[h].response.of))
        => SameRequest(handlers[h].request, handlers[h].response.of)

\* C29: once a request with key K was received and forwarded, no other request
\* with key K is forwarded to the target API before the TTL has elapsed since
\* the first was received.
C29_NoSecondForward ==
    \A g \in DOMAIN handlers, h \in DOMAIN handlers :
        (/\ g # h
         /\ handlers[g].pc \in {"fetching", "done"} /\ handlers[g].forwardedAt >= 0
         /\ handlers[h].pc \in {"fetching", "done"} /\ handlers[h].forwardedAt >= 0
         /\ handlers[g].forwardedAt <= handlers[h].forwardedAt
         /\ handlers[g].idempotencyKey = handlers[h].idempotencyKey)
        => handlers[h].forwardedAt >= handlers[g].receivedAt + ttl


(* ------------------------------ endpoint page -------------------------- *)
\* most calls of handleSubmit
MaxSubmits == 3
EndpointKeyInputs == {"A", "B"}
\* an abort controller is named by the index of the request it belongs to;
\* 0 stands for null
Aborted(reqs, controller) ==
    IF controller = 0 THEN reqs ELSE [reqs EXCEPT ![controller].aborted = TRUE]
\* what is displayed: the request it comes from and the endpoint that request
\* was issued for
Outcome(i, endpoint) == [of |-> i, endpointKey |-> endpoint]
Settled(i) == [requests EXCEPT ![i].pc = "done"]

InitPage ==
    /\ schema = NoSchema
    /\ op = "page"
    /\ normalized = NoSchema
    /\ fields = <<>>
    /\ kind = ""
    /\ parameters = <<>>
    /\ config = NoConfig
    /\ arrayValue = <<>>
    /\ lastChange = NoChange
    /\ operation = NoOperation
    /\ formValues = NoFormValues
    /\ samples = NoSamples
    /\ formFields = <<>>
    /\ formData = NoFormValues
    /\ userModifiedFields = {}
    /\ selectedExample = NoExample
    /\ urlFieldName = ""
    /\ parsedValues = NoParsed
    /\ openapi = NoDocument
    /\ uiUrlField = NoUrlField
    /\ urlValue = NoUrlValue
    /\ submitted = NoRequest
    /\ now = 0
    /\ requestStore = NoStore
    /\ answers = <<>>
    /\ handlers = <<>>
    /\ deduplicationStore = {}
    /\ currentEndpointKeyRef = ""
    /\ abortControllerRef = 0
    /\ apiResponse = NoOutcome
    /\ error = NoOutcome
    /\ isLoading = FALSE
    /\ requests = <<>>
PageIdle == UNCHANGED <<schemaVars, formVars, genVars, apiFormVars, parseVars, authVars,
                        runVars, limitVars, dedupVars>>

\* the effect that follows the route: the endpoint has changed
EndpointChange(finalEndpointKey) ==
    /\ finalEndpointKey # currentEndpointKeyRef
    /\ apiResponse' = NoOutcome
    /\ error' = NoOutcome
    /\ isLoading' = FALSE
    /\ requests' = Aborted(requests, abortControllerRef)
    /\ abortControllerRef' = 0
    /\ currentEndpointKeyRef' = finalEndpointKey
    /\ PageIdle

\* handleSubmit up to the call of fetch
handleSubmitPage ==
    /\ Len(requests) < MaxSubmits
    /\ IF currentEndpointKeyRef = ""
       THEN /\ error' = Outcome(0, "")
            /\ UNCHANGED <<currentEndpointKeyRef, abortControllerRef, apiResponse, isLoading,
                           requests>>
       ELSE /\ requests' = Append(Aborted(requests, abortControllerRef),
                                  [endpointKey |-> currentEndpointKeyRef, aborted |-> FALSE,
                                   pc |-> "fetching", ok |-> FALSE])
            /\ abortControllerRef' = Len(requests) + 1
            /\ isLoading' = TRUE
            /\ error' = NoOutcome
            /\ apiResponse' = NoOutcome
            /\ UNCHANGED currentEndpointKeyRef
    /\ PageIdle

\* the response of /api/run arrives: fetch resolves and the body is being read
ResponseArrives(i, ok) ==
    /\ requests[i].pc = "fetching" /\ ~requests[i].aborted
    /\ requests' = [requests EXCEPT ![i].pc = "reading", ![i].ok = ok]
    /\ UNCHANGED <<currentEndpointKeyRef, abortControllerRef, apiResponse, error, isLoading>>
    /\ PageIdle

\* handleSubmit when fetch rejects: after an abort, or on a network error
FetchRejected(i) ==
    /\ requests[i].pc = "fetching"
    /\ error' = IF ~requests[i].aborted /\ requests[i].endpointKey = currentEndpointKeyRef
                THEN Outcome(i, requests[i].endpointKey)
                ELSE error
    /\ isLoading' = FALSE
    /\ requests' = Settled(i)
    /\ UNCHANGED <<currentEndpointKeyRef, abortControllerRef, apiResponse>>
    /\ PageIdle

\* handleSubmit when response.json() rejects: the body is not JSON, or the
\* request was aborted while the body was read
JsonRejected(i) ==
    /\ requests[i].pc = "reading"
    /\ error' = Outcome(i, requests[i].endpointKey)
    /\ isLoading' = FALSE
    /\ requests' = Settled(i)
    /\ UNCHANGED <<currentEndpointKeyRef, abortControllerRef, apiResponse>>
    /\ PageIdle

\* handleSubmit when response.json() resolves
JsonResolved(i) ==
    /\ requests[i].pc = "reading" /\ ~requests[i].aborted
    /\ IF ~requests[i].ok
       THEN /\ error' = Outcome(i, requests[i].endpointKey)
            /\ UNCHANGED <<apiResponse, abortControllerRef>>
       ELSE IF ~requests[i].aborted /\ requests[i].endpointKey = currentEndpointKeyRef
       THEN /\ apiResponse' = Outcome(i, requests[i].endpointKey)
            /\ abortControllerRef' = 0
            /\ UNCHANGED error
       ELSE UNCHANGED <<apiResponse, abortControllerRef, error>>
    /\ isLoading' = FALSE
    /\ requests' = Settled(i)
    /\ UNCHANGED currentEndpointKeyRef
    /\ PageIdle

NextPage ==
    \/ \E finalEndpointKey \in EndpointKeyInputs : EndpointChange(finalEndpointKey)
    \/ handleSubmitPage
    \/ \E i \in DOMAIN requests, ok \in BOOLEAN : ResponseArrives(i, ok)
    \/ \E i \in DOMAIN requests : FetchRejected(i)
    \/ \E i \in DOMAIN requests : JsonRejected(i)
    \/ \E i \in DOMAIN requests : JsonResolved(i)
SpecPage == InitPage /\ [][NextPage]_vars

\* C30: what the page displays, apiResponse or error, comes from a request
\* that was issued for the current endpoint.
C30_OutcomeOfCurrentEndpoint ==
    /\ apiResponse # NoOutcome => apiResponse.endpointKey = currentEndpointKeyRef
    /\ error # NoOutcome => error.endpointKey = currentEndpointKeyRef

====
